---- MODULE Spec2Model ----
(***************************************************************************)
(* Model of services/garmin/context_preparation.py: the sliding-window     *)
(* partition of activities, the gap-filled weekly aggregation and the      *)
(* weekly recovery join of ContextPreparationService.                      *)
(*                                                                         *)
(* Dates are proleptic Gregorian ordinals (date.toordinal()); ISO strings  *)
(* are modelled by their year / month / day fields; Python floats are      *)
(* modelled by exact rationals [n, d] in lowest terms.                     *)
(***************************************************************************)
EXTENDS Integers, Sequences, FiniteSets, TLC

(* ------------------------------------------------------------------ *)
(* Exact rationals standing for Python floats                          *)
(* ------------------------------------------------------------------ *)

RECURSIVE GCD(_, _)
GCD(a, b) == IF b = 0 THEN a ELSE GCD(b, a % b)

Abs(x) == IF x < 0 THEN -x ELSE x

\* the rational n/d (d > 0) in lowest terms
Rat(n, d) ==
    LET g == GCD(Abs(n), d)
    IN  [n |-> n \div g, d |-> d \div g]

RInt(k) == [n |-> k, d |-> 1]

RZero == RInt(0)

RAdd(x, y) == Rat(x.n * y.d + y.n * x.d, x.d * y.d)

\* x / k for a positive integer constant k
RDivInt(x, k) == Rat(x.n, x.d * k)

\* RLess with the comparison turned around
RGreater(x, y) == x.n * y.d > y.n * x.d

\* RLess letting equal numbers through
RLessOrEqual(x, y) == x.n * y.d <= y.n * x.d

RLess(x, y) == x.n * y.d < y.n * x.d

\* RPos letting 0 through
RNotNegative(x) == x.n >= 0

RPos(x) == x.n > 0

\* float truthiness: 0.0 is falsy
RTruthy(x) == x.n # 0

\* int(x) of a float: truncation toward zero
RTrunc(x) == IF x.n >= 0 THEN x.n \div x.d ELSE -((-x.n) \div x.d)

RECURSIVE Pow10(_)
Pow10(k) == IF k = 0 THEN 1 ELSE 10 * Pow10(k - 1)

\* round(x, ndigits): the closest multiple of 10^-ndigits, an exact tie
\* going to the even multiple
RoundHalfEven(x, ndigits) ==
    LET p   == Pow10(ndigits)
        num == x.n * p
        q   == num \div x.d
        r   == num % x.d
        up  == \/ 2 * r > x.d
               \/ (2 * r = x.d /\ q % 2 = 1)
    IN  Rat(IF up THEN q + 1 ELSE q, p)

(* ------------------------------------------------------------------ *)
(* The calendar of datetime.date                                       *)
(* ------------------------------------------------------------------ *)

IsLeap(y) == (y % 4 = 0) /\ ((y % 100 # 0) \/ (y % 400 = 0))

DaysInMonth(y, m) ==
    IF m = 2 THEN (IF IsLeap(y) THEN 29 ELSE 28)
    ELSE IF m \in {4, 6, 9, 11} THEN 30 ELSE 31

RECURSIVE DaysBeforeMonth(_, _)
DaysBeforeMonth(y, m) ==
    IF m = 1 THEN 0 ELSE DaysBeforeMonth(y, m - 1) + DaysInMonth(y, m - 1)

DaysBeforeYear(y) ==
    (y - 1) * 365 + ((y - 1) \div 4) - ((y - 1) \div 100) + ((y - 1) \div 400)

DaysInYear(y) == IF IsLeap(y) THEN 366 ELSE 365

\* date(y, m, d).toordinal()
ToOrdinal(ymd) == DaysBeforeYear(ymd.y) + DaysBeforeMonth(ymd.y, ymd.m) + ymd.d

\* date(y, m, d) is a date of the calendar (else the constructor raises ValueError)
ValidYMD(ymd) ==
    /\ ymd.y \in 1..9999
    /\ ymd.m \in 1..12
    /\ ymd.d \in 1..DaysInMonth(ymd.y, ymd.m)

RECURSIVE MonthOf(_, _, _)
\* the month and day of the n-th day (n >= 1) of year y, searching from month m
MonthOf(y, m, n) ==
    IF n <= DaysInMonth(y, m) THEN [y |-> y, m |-> m, d |-> n]
    ELSE MonthOf(y, m + 1, n - DaysInMonth(y, m))

\* date.fromordinal(n): year, month, day
FromOrdinal(n) ==
    LET guess == ((n * 400) \div 146097) + 1
        y     == CHOOSE c \in (guess - 1)..(guess + 1) :
                     DaysBeforeYear(c) < n /\ n <= DaysBeforeYear(c) + DaysInYear(c)
    IN  MonthOf(y, 1, n - DaysBeforeYear(y))

\* date.weekday(): Monday is 0
Weekday(n) == (n + 6) % 7

\* date.isoformat(): the fields of "YYYY-MM-DD"
IsoFormat(n) == FromOrdinal(n)

\* IsoStrLess on strings written day first
DayFirstStrLess(a, b) ==
    \/ a.d < b.d
    \/ (a.d = b.d /\ a.m < b.m)
    \/ (a.d = b.d /\ a.m = b.m /\ a.y < b.y)

\* comparison of two "YYYY-MM-DD" strings, character by character: the fields
\* are zero-padded to fixed width, so it is the comparison of (y, m, d)
IsoStrLess(a, b) ==
    \/ a.y < b.y
    \/ (a.y = b.y /\ a.m < b.m)
    \/ (a.y = b.y /\ a.m = b.m /\ a.d < b.d)

(* ------------------------------------------------------------------ *)
(* Loosely typed input values                                          *)
(* ------------------------------------------------------------------ *)

\* A field of an input mapping: absent ("missing"), None ("null"), a string
\* that is no number ("str"), a number ("num", v its value) or a mapping
\* ("dict"); v is RZero unless t = "num".
Missing == [t |-> "missing", v |-> RZero]

Null == [t |-> "null", v |-> RZero]

BadStr == [t |-> "str", v |-> RZero]

Num(x) == [t |-> "num", v |-> x]

\* Python's None / a float as the value of an Optional[float] attribute
NoneVal == Null

\* mapping.get(key, default) on a field value
Get(field, default) == IF field.t = "missing" THEN default ELSE field

\* GetOrNone with 0 for its default
GetOrZero(field) == Get(field, Num(RZero))

\* mapping.get(key): the default is None
GetOrNone(field) == Get(field, Null)

\* truthiness of a field value fetched with .get(): None, 0 and 0.0 are falsy
Truthy(value) ==
    CASE value.t = "null" -> FALSE
      [] value.t = "num"  -> RTruthy(value.v)
      [] OTHER            -> TRUE

\* an activity-type tag: absent, None, or the string s
TypeMissing == [t |-> "missing", s |-> ""]

TypeNull == [t |-> "null", s |-> ""]

TypeStr(s) == [t |-> "str", s |-> s]

\* A timestamp field. form: "missing", "null", "empty" (""), "text" (a string
\* without "T" that is no date), "textT" (a string with a "T" that is no
\* timestamp), "date" (YYYY-MM-DD), "datetime" (YYYY-MM-DDTHH:MM:SS),
\* "datetimeZ" (the same with a trailing Z), "datetimeUTC" (the same with a
\* trailing +00:00), "number" (no string: a non-zero number). ymd are the
\* date fields written in the string.
NoYMD == [y |-> 0, m |-> 0, d |-> 0]

TimeStr(form, ymd) == [form |-> form, ymd |-> ymd]

\* "T" in start_time
HasT(form) == form \in {"textT", "datetime", "datetimeZ", "datetimeUTC"}

\* ReplaceZ leaving the "Z" where it is
KeepZ(form) == form

\* start_time.replace("Z", "+00:00")
ReplaceZ(form) == IF form = "datetimeZ" THEN "datetimeUTC" ELSE form

\* the parsed date, or the absence of one
NoDate == 0

\* what stands for the date when "T" in start_time raises a TypeError, which
\* the handler of _parse_activity_date does not catch
TypeErrorRaised == -1

\* datetime.fromisoformat(s).date(): NoDate stands for the ValueError
FromIsoFormat(form, ymd) ==
    IF form \in {"date", "datetime", "datetimeUTC"} /\ ValidYMD(ymd)
    THEN ToOrdinal(ymd) ELSE NoDate

\* datetime.strptime(s.split("T")[0], "%Y-%m-%d").date(): NoDate stands for
\* the ValueError
StrPTime(form, ymd) ==
    IF form = "date" /\ ValidYMD(ymd) THEN ToOrdinal(ymd) ELSE NoDate

(* ------------------------------------------------------------------ *)
(* ContextPreparationService: the static helpers                       *)
(* ------------------------------------------------------------------ *)

\* _get_week_start subtracting isoweekday() (Monday is 1) in place of weekday()
IsoWeekdayWeekStart(activity_date) == activity_date - (Weekday(activity_date) + 1)

\* _get_week_start with weeks that start on Sunday
SundayWeekStart(activity_date) == activity_date - ((Weekday(activity_date) + 1) % 7)

\* _get_week_start: Monday of the week of a date
_get_week_start(activity_date) == activity_date - Weekday(activity_date)

\* _safe_float(value, default)
_safe_float(value, default) ==
    CASE value.t = "null" -> default
      [] value.t = "num"  -> value.v
      [] OTHER            -> default

\* _safe_int(value, default)
_safe_int(value, default) ==
    CASE value.t = "null" -> default
      [] value.t = "num"  -> RTrunc(value.v)
      [] OTHER            -> default

\* _parse_activity_date without its except clause: a string in another
\* format leaves it with the ValueError
ParseWithoutHandler(activity) ==
    LET start_time == activity.start_time
    IN  IF start_time.form \in {"missing", "null", "empty"} THEN NoDate
        ELSE IF start_time.form \in {"number", "text", "textT"} THEN TypeErrorRaised
        ELSE IF HasT(start_time.form)
             THEN FromIsoFormat(ReplaceZ(start_time.form), start_time.ymd)
             ELSE StrPTime(start_time.form, start_time.ymd)

\* _parse_activity_date: the date of an activity, NoDate for None,
\* TypeErrorRaised when the call raises
_parse_activity_date(activity) ==
    LET start_time == activity.start_time
    IN  IF start_time.form \in {"missing", "null", "empty"} THEN NoDate
        ELSE IF start_time.form = "number" THEN TypeErrorRaised
        ELSE IF HasT(start_time.form)
             THEN FromIsoFormat(ReplaceZ(start_time.form), start_time.ymd)
             ELSE StrPTime(start_time.form, start_time.ymd)

(* ------------------------------------------------------------------ *)
(* Dictionaries keyed by activity type (defaultdict)                   *)
(* ------------------------------------------------------------------ *)

EmptyDict == [k \in {} |-> 0]

\* d[key] += 1 on a defaultdict(int)
DictInc(dict, key) ==
    [k \in (DOMAIN dict) \cup {key} |->
        IF k = key
        THEN (IF key \in DOMAIN dict THEN dict[key] + 1 ELSE 1)
        ELSE dict[k]]

\* DictAdd assigning in place of adding: d[key] = x
DictSet(dict, key, x) ==
    [k \in (DOMAIN dict) \cup {key} |-> IF k = key THEN x ELSE dict[k]]

\* d[key] += x on a defaultdict(float)
DictAdd(dict, key, x) ==
    [k \in (DOMAIN dict) \cup {key} |->
        IF k = key
        THEN (IF key \in DOMAIN dict THEN RAdd(dict[key], x) ELSE RAdd(RZero, x))
        ELSE dict[k]]

RECURSIVE SumSeq(_)
\* sum(list) of floats
SumSeq(list) == IF list = <<>> THEN RZero ELSE RAdd(Head(list), SumSeq(Tail(list)))

\* max(list) of ints
MaxSeq(list) == CHOOSE x \in {list[k] : k \in 1..Len(list)} :
                    \A k \in 1..Len(list) : list[k] <= x

(* ------------------------------------------------------------------ *)
(* _extract_weekly_recovery_metrics                                    *)
(* ------------------------------------------------------------------ *)

\* InWeek without the last day of the week
InWeekExclusive(entry_date, week_start, week_end) ==
    week_start <= entry_date /\ entry_date < week_end

\* InWeek taking the records of every date
InWeekAlways(entry_date, week_start, week_end) == TRUE

\* week_start <= entry_date <= week_end
InWeek(entry_date, week_start, week_end) ==
    week_start <= entry_date /\ entry_date <= week_end

\* One pass of the loop body over a recovery entry. The state of the loop is
\* [raised, resting_hrs, sleep_hours]; raised is the exception that left the
\* function ("" when none did).
RecoveryEntry(st, entry, week_start, week_end) ==
    LET \* fromisoformat(entry.get("date", "")): "" raises ValueError, None TypeError
        entry_date == FromIsoFormat(entry.date.form, entry.date.ymd)
        sleep_info == entry.sleep
        rhr        == GetOrNone(sleep_info.resting_heart_rate)
        duration   == sleep_info.duration
        total      == GetOrNone(duration.total)
        with_rhr   == IF Truthy(rhr)
                      THEN [st EXCEPT !.resting_hrs = Append(@, rhr.v)]
                      ELSE st
    IN  IF st.raised # "" THEN st
        ELSE IF entry_date = NoDate THEN st                     \* ValueError / TypeError: continue
        ELSE IF ~InWeek(entry_date, week_start, week_end) THEN st
        ELSE IF sleep_info.t \in {"null", "str"}
             THEN [st EXCEPT !.raised = "AttributeError"]        \* None.get
        ELSE IF Truthy(rhr) /\ rhr.t # "num" THEN st             \* float("...") ValueError: continue
        ELSE IF duration.t \in {"null", "str"}
             THEN [with_rhr EXCEPT !.raised = "AttributeError"]  \* None.get
        ELSE IF ~Truthy(total) THEN with_rhr
        ELSE IF total.t # "num" THEN with_rhr                    \* float("...") ValueError: continue
        ELSE [with_rhr EXCEPT !.sleep_hours = Append(@, total.v)]

RECURSIVE RecoveryLoop(_, _, _, _)
RecoveryLoop(st, recovery_data, week_start, week_end) ==
    IF recovery_data = <<>> THEN st
    ELSE RecoveryLoop(RecoveryEntry(st, Head(recovery_data), week_start, week_end),
                      Tail(recovery_data), week_start, week_end)

\* sum(xs) / len(xs) if xs else None
MeanOrNone(xs) == IF xs # <<>> THEN Num(RDivInt(SumSeq(xs), Len(xs))) ELSE NoneVal

\* _extract_weekly_recovery_metrics: [raised, avg_rhr, avg_sleep]
_extract_weekly_recovery_metrics(garmin_data, week_start, week_end) ==
    LET st == RecoveryLoop([raised |-> "", resting_hrs |-> <<>>, sleep_hours |-> <<>>],
                           garmin_data.recovery_indicators, week_start, week_end)
    IN  [raised    |-> st.raised,
         avg_rhr   |-> MeanOrNone(st.resting_hrs),
         avg_sleep |-> MeanOrNone(st.sleep_hours)]

(* ------------------------------------------------------------------ *)
(* _create_weekly_aggregate                                            *)
(* ------------------------------------------------------------------ *)

\* activity.get("activity_type", "unknown")
ActivityTypeOf(activity) ==
    IF activity.activity_type.t = "missing" THEN TypeStr("unknown")
    ELSE activity.activity_type

\* InitAccumulators with "unknown" for the most intense type
AccumulatorsOfUnknown ==
    [raised                 |-> "",
     total_distance         |-> RZero,
     total_duration         |-> RZero,
     total_elevation        |-> RZero,
     total_training_load    |-> RZero,
     activities_by_type     |-> EmptyDict,
     distance_by_type       |-> EmptyDict,
     duration_by_type       |-> EmptyDict,
     heart_rates            |-> <<>>,
     max_hrs                |-> <<>>,
     longest_distance       |-> RZero,
     longest_duration       |-> RZero,
     highest_intensity_type |-> TypeStr("unknown"),
     max_intensity_load     |-> RZero]

\* the accumulators before the loop
InitAccumulators ==
    [raised                 |-> "",
     total_distance         |-> RZero,
     total_duration         |-> RZero,
     total_elevation        |-> RZero,
     total_training_load    |-> RZero,
     activities_by_type     |-> EmptyDict,
     distance_by_type       |-> EmptyDict,
     duration_by_type       |-> EmptyDict,
     heart_rates            |-> <<>>,
     max_hrs                |-> <<>>,
     longest_distance       |-> RZero,
     longest_duration       |-> RZero,
     highest_intensity_type |-> TypeNull,
     max_intensity_load     |-> RZero]

\* ToHours dividing by the seconds of a minute
ToMinutes(duration_s) == IF RTruthy(duration_s) THEN RDivInt(duration_s, 60) ELSE RZero

\* distance_m / 1000.0 if distance_m else 0.0
ToKm(distance_m) == IF RTruthy(distance_m) THEN RDivInt(distance_m, 1000) ELSE RZero

\* duration_s / 3600.0 if duration_s else 0.0
ToHours(duration_s) == IF RTruthy(duration_s) THEN RDivInt(duration_s, 3600) ELSE RZero

\* the loop body for one activity
ProcessActivity(acc, activity) ==
    LET activity_type == ActivityTypeOf(activity)
        summary       == activity.summary
        distance_km   == ToKm(_safe_float(Get(summary.distance, Num(RZero)), RZero))
        duration_h    == ToHours(_safe_float(Get(summary.duration, Num(RZero)), RZero))
        elevation     == _safe_float(Get(summary.elevation_gain, Num(RZero)), RZero)
        training_load == _safe_float(Get(summary.activity_training_load, Num(RZero)), RZero)
        avg_hr        == _safe_float(GetOrNone(summary.average_hr), RZero)
        max_hr        == _safe_int(GetOrNone(summary.max_hr), 0)
        more_intense  == RLess(acc.max_intensity_load, training_load)
    IN  IF acc.raised # "" THEN acc
        ELSE IF summary.t \in {"null", "str"}
             THEN [acc EXCEPT !.raised = "AttributeError"]      \* summary.get on None / str
        ELSE [raised                 |-> "",
              total_distance         |-> RAdd(acc.total_distance, distance_km),
              total_duration         |-> RAdd(acc.total_duration, duration_h),
              total_elevation        |-> RAdd(acc.total_elevation, elevation),
              total_training_load    |-> RAdd(acc.total_training_load, training_load),
              activities_by_type     |-> DictInc(acc.activities_by_type, activity_type),
              distance_by_type       |-> DictAdd(acc.distance_by_type, activity_type, distance_km),
              duration_by_type       |-> DictAdd(acc.duration_by_type, activity_type, duration_h),
              heart_rates            |-> IF RPos(avg_hr) THEN Append(acc.heart_rates, avg_hr)
                                         ELSE acc.heart_rates,
              max_hrs                |-> IF max_hr > 0 THEN Append(acc.max_hrs, max_hr)
                                         ELSE acc.max_hrs,
              longest_distance       |-> IF RLess(acc.longest_distance, distance_km)
                                         THEN distance_km ELSE acc.longest_distance,
              longest_duration       |-> IF RLess(acc.longest_duration, duration_h)
                                         THEN duration_h ELSE acc.longest_duration,
              highest_intensity_type |-> IF more_intense THEN activity_type
                                         ELSE acc.highest_intensity_type,
              max_intensity_load     |-> IF more_intense THEN training_load
                                         ELSE acc.max_intensity_load]

RECURSIVE ProcessActivities(_, _)
ProcessActivities(acc, activities) ==
    IF activities = <<>> THEN acc
    ELSE ProcessActivities(ProcessActivity(acc, Head(activities)), Tail(activities))

\* x if x > 0 else None
PositiveOrNone(x) == IF RPos(x) THEN Num(x) ELSE NoneVal

\* _create_weekly_aggregate: [raised, agg]; agg is the WeeklyAggregate
_create_weekly_aggregate(week_start, activities, garmin_data, week_number) ==
    LET week_end == week_start + 6
        acc      == ProcessActivities(InitAccumulators, activities)
        avg_hr   == MeanOrNone(acc.heart_rates)
        max_hr   == IF acc.max_hrs # <<>> THEN Num(RInt(MaxSeq(acc.max_hrs))) ELSE NoneVal
        recovery == _extract_weekly_recovery_metrics(garmin_data, week_start, week_end)
    IN  [raised |-> IF acc.raised # "" THEN acc.raised ELSE recovery.raised,
         agg |->
           [week_start                      |-> IsoFormat(week_start),
            week_end                        |-> IsoFormat(week_end),
            week_number                     |-> week_number,
            total_activities                |-> Len(activities),
            total_distance_km               |-> acc.total_distance,
            total_duration_hours            |-> acc.total_duration,
            total_elevation_gain_m          |-> acc.total_elevation,
            activities_by_type              |-> acc.activities_by_type,
            distance_by_type                |-> acc.distance_by_type,
            duration_by_type                |-> acc.duration_by_type,
            avg_heart_rate                  |-> avg_hr,
            max_heart_rate                  |-> max_hr,
            total_training_load             |-> PositiveOrNone(acc.total_training_load),
            longest_activity_distance_km    |-> PositiveOrNone(acc.longest_distance),
            longest_activity_duration_hours |-> PositiveOrNone(acc.longest_duration),
            highest_intensity_activity      |-> acc.highest_intensity_type,
            avg_resting_hr                  |-> recovery.avg_rhr,
            avg_sleep_hours                 |-> recovery.avg_sleep]]

(* ------------------------------------------------------------------ *)
(* WeeklyAggregate.to_dict                                             *)
(* ------------------------------------------------------------------ *)

\* RoundOrNone giving 0 where there is nothing to round
RoundOrZero(x, ndigits) ==
    IF x.t = "num" /\ RTruthy(x.v) THEN Num(RoundHalfEven(x.v, ndigits)) ELSE Num(RZero)

\* round(x, ndigits) if x else None
RoundOrNone(x, ndigits) ==
    IF x.t = "num" /\ RTruthy(x.v) THEN Num(RoundHalfEven(x.v, ndigits)) ELSE NoneVal

\* RoundDict rounding to whole numbers
RoundDictWhole(dict) == [k \in DOMAIN dict |-> RoundHalfEven(dict[k], 0)]

\* {k: round(v, 2) for k, v in d.items()}
RoundDict(dict) == [k \in DOMAIN dict |-> RoundHalfEven(dict[k], 2)]

to_dict(agg) ==
    [week_start  |-> agg.week_start,
     week_end    |-> agg.week_end,
     week_number |-> agg.week_number,
     volume |->
       [total_activities       |-> agg.total_activities,
        total_distance_km      |-> RoundHalfEven(agg.total_distance_km, 2),
        total_duration_hours   |-> RoundHalfEven(agg.total_duration_hours, 2),
        total_elevation_gain_m |-> RoundHalfEven(agg.total_elevation_gain_m, 2)],
     by_activity_type |->
       [counts         |-> agg.activities_by_type,
        distance_km    |-> RoundDict(agg.distance_by_type),
        duration_hours |-> RoundDict(agg.duration_by_type)],
     intensity |->
       [avg_heart_rate      |-> RoundOrNone(agg.avg_heart_rate, 1),
        max_heart_rate      |-> agg.max_heart_rate,
        total_training_load |-> RoundOrNone(agg.total_training_load, 1)],
     key_sessions |->
       [longest_distance_km    |-> RoundOrNone(agg.longest_activity_distance_km, 2),
        longest_duration_hours |-> RoundOrNone(agg.longest_activity_duration_hours, 2),
        highest_intensity_type |-> agg.highest_intensity_activity],
     recovery |->
       [avg_resting_hr  |-> RoundOrNone(agg.avg_resting_hr, 1),
        avg_sleep_hours |-> RoundOrNone(agg.avg_sleep_hours, 2)]]

(* ------------------------------------------------------------------ *)
(* _extract_current_metrics                                            *)
(* ------------------------------------------------------------------ *)

\* _extract_current_metrics with the three loads next to the other markers
ExtractFlat(garmin_data) ==
    LET physiological   == garmin_data.physiological_markers
        training_status == garmin_data.training_status
        daily_stats     == garmin_data.daily_stats
        acute           == training_status.acute_training_load
    IN  [resting_heart_rate |-> GetOrNone(physiological.resting_heart_rate),
         vo2_max            |-> GetOrNone(physiological.vo2_max),
         hrv                |-> GetOrNone(physiological.hrv),
         acute              |-> GetOrNone(acute.acute_load),
         chronic            |-> GetOrNone(acute.chronic_load),
         acwr               |-> GetOrNone(acute.acwr),
         current_stress     |-> GetOrNone(daily_stats.average_stress_level),
         current_rhr        |-> GetOrNone(daily_stats.resting_heart_rate)]

_extract_current_metrics(garmin_data) ==
    LET physiological   == garmin_data.physiological_markers
        training_status == garmin_data.training_status
        daily_stats     == garmin_data.daily_stats
        acute           == training_status.acute_training_load
    IN  [resting_heart_rate |-> GetOrNone(physiological.resting_heart_rate),
         vo2_max            |-> GetOrNone(physiological.vo2_max),
         hrv                |-> GetOrNone(physiological.hrv),
         training_load |->
           [acute   |-> GetOrNone(acute.acute_load),
            chronic |-> GetOrNone(acute.chronic_load),
            acwr    |-> GetOrNone(acute.acwr)],
         current_stress     |-> GetOrNone(daily_stats.average_stress_level),
         current_rhr        |-> GetOrNone(daily_stats.resting_heart_rate)]

(* ------------------------------------------------------------------ *)
(* prepare_agent_context and _aggregate_by_week: the loops             *)
(* ------------------------------------------------------------------ *)

\* analysis_date - timedelta(days = n)
DaysBefore(date, n) == date - n

RECURSIVE SplitActivitiesInclusive(_, _, _, _)
\* SplitActivities with ">=" for the recent bucket
SplitActivitiesInclusive(activities, recent_cutoff, trends_cutoff, split) ==
    IF activities = <<>> THEN split
    ELSE LET activity      == Head(activities)
             activity_date == _parse_activity_date(activity)
             next == IF activity_date = NoDate THEN split
                     ELSE IF activity_date >= recent_cutoff
                          THEN [split EXCEPT !.recent = Append(@, activity)]
                     ELSE IF activity_date > trends_cutoff
                          THEN [split EXCEPT !.historical = Append(@, activity)]
                     ELSE split
         IN  SplitActivitiesInclusive(Tail(activities), recent_cutoff, trends_cutoff, next)

RECURSIVE SplitActivitiesNewestFirst(_, _, _, _)
\* SplitActivities putting each recent activity in front of the earlier ones
SplitActivitiesNewestFirst(activities, recent_cutoff, trends_cutoff, split) ==
    IF activities = <<>> THEN split
    ELSE LET activity      == Head(activities)
             activity_date == _parse_activity_date(activity)
             next == IF activity_date = NoDate THEN split
                     ELSE IF activity_date > recent_cutoff
                          THEN [split EXCEPT !.recent = <<activity>> \o @]
                     ELSE IF activity_date > trends_cutoff
                          THEN [split EXCEPT !.historical = Append(@, activity)]
                     ELSE split
         IN  IF activity_date = TypeErrorRaised
             THEN [split EXCEPT !.raised = "TypeError"]
             ELSE SplitActivitiesNewestFirst(Tail(activities), recent_cutoff,
                                             trends_cutoff, next)

RECURSIVE SplitActivities(_, _, _, _)
\* the loop of prepare_agent_context over the activities: [recent,
\* historical, raised]; an exception of _parse_activity_date ends it
SplitActivities(activities, recent_cutoff, trends_cutoff, split) ==
    IF activities = <<>> THEN split
    ELSE LET activity      == Head(activities)
             activity_date == _parse_activity_date(activity)
             next == IF activity_date = NoDate THEN split
                     ELSE IF activity_date > recent_cutoff
                          THEN [split EXCEPT !.recent = Append(@, activity)]
                     ELSE IF activity_date > trends_cutoff
                          THEN [split EXCEPT !.historical = Append(@, activity)]
                     ELSE split
         IN  IF activity_date = TypeErrorRaised
             THEN [split EXCEPT !.raised = "TypeError"]
             ELSE SplitActivities(Tail(activities), recent_cutoff, trends_cutoff, next)

\* weeks[week_start].append(activity) on a defaultdict(list)
WeeksAppend(weeks, week_start, activity) ==
    [k \in (DOMAIN weeks) \cup {week_start} |->
        IF k = week_start
        THEN (IF week_start \in DOMAIN weeks THEN Append(weeks[week_start], activity)
              ELSE <<activity>>)
        ELSE weeks[k]]

RECURSIVE GroupByWeek(_, _)
\* the grouping loop of _aggregate_by_week
GroupByWeek(activities, weeks) ==
    IF activities = <<>> THEN weeks
    ELSE LET activity      == Head(activities)
             activity_date == _parse_activity_date(activity)
         IN  GroupByWeek(Tail(activities),
                         IF activity_date = NoDate THEN weeks
                         ELSE WeeksAppend(weeks, _get_week_start(activity_date), activity))

\* InWalk with "<="
InWalkInclusive(week, end_date) == week <= end_date

\* the condition of "while current_week < end_date"
InWalk(week, end_date) == week < end_date

\* NextWeek stepping by a day
NextDay(week) == week + 1

\* NextWeek stepping over a week
SkipWeek(week) == week + 14

\* the walk's step: current_week += timedelta(days = 7)
NextWeek(week) == week + 7

\* weeks.get(current_week, [])
WeeksGet(weeks, week) == IF week \in DOMAIN weeks THEN weeks[week] ELSE <<>>

RECURSIVE InsertSorted(_, _)
\* x put after every element whose key is not greater than its own
InsertSorted(sorted, x) ==
    IF sorted = <<>> THEN <<x>>
    ELSE IF IsoStrLess(x.week_start, Head(sorted).week_start)
         THEN <<x>> \o sorted
         ELSE <<Head(sorted)>> \o InsertSorted(Tail(sorted), x)

RECURSIVE SortByWeekStart(_)
\* aggregates.sort(key = lambda x: x.week_start): a stable sort on the ISO string
SortByWeekStart(aggs) ==
    IF aggs = <<>> THEN <<>>
    ELSE InsertSorted(SortByWeekStart(SubSeq(aggs, 1, Len(aggs) - 1)), aggs[Len(aggs)])

(* ------------------------------------------------------------------ *)
(* State                                                               *)
(* ------------------------------------------------------------------ *)

VARIABLES
    garmin_data,            \* the input dataset
    analysis_date,          \* the reference date (an ordinal)
    recent_window_days,
    trends_window_days,
    pc,                     \* "split", "group", "walk", "done", "raised"
    recent_activities,      \* the recent bucket
    historical_activities,  \* the historical bucket
    weeks,                  \* week start -> the activities grouped into it
    aggregates,             \* the WeeklyAggregates built so far
    current_week,           \* the week the walk is at
    week_number,
    result,                 \* the PreparedContext, once pc = "done"
    raised,                 \* the exception that left the call, once pc = "raised"
    returned                \* the earlier calls of the process: arguments and outcome

vars == <<garmin_data, analysis_date, recent_window_days, trends_window_days, pc,
          recent_activities, historical_activities, weeks, aggregates,
          current_week, week_number, result, raised, returned>>

inputs == <<garmin_data, analysis_date, recent_window_days, trends_window_days>>

recent_cutoff == DaysBefore(analysis_date, recent_window_days)

trends_cutoff == DaysBefore(analysis_date, trends_window_days)

NoResult == [set |-> FALSE]

\* the two buckets before the loop, and no exception
NoSplit == [recent |-> <<>>, historical |-> <<>>, raised |-> ""]

(* ------------------------------------------------------------------ *)
(* Actions: one call of prepare_agent_context                          *)
(* ------------------------------------------------------------------ *)

\* Split taking the activities off the input list as it reads them
SplitConsuming ==
    /\ pc = "split"
    /\ LET split == SplitActivities(garmin_data.recent_activities, recent_cutoff,
                                    trends_cutoff, NoSplit)
       IN  /\ recent_activities' = split.recent
           /\ historical_activities' = split.historical
    /\ garmin_data' = [garmin_data EXCEPT !.recent_activities = <<>>]
    /\ pc' = "group"
    /\ UNCHANGED <<analysis_date, recent_window_days, trends_window_days, returned, weeks,
                   aggregates, current_week, week_number, result, raised>>

\* prepare_agent_context, the loop that splits the activities into the recent
\* and the historical bucket
Split ==
    /\ pc = "split"
    /\ LET split == SplitActivities(garmin_data.recent_activities, recent_cutoff,
                                    trends_cutoff, NoSplit)
       IN  IF split.raised # ""
           THEN /\ pc' = "raised"
                /\ raised' = split.raised
                /\ UNCHANGED <<recent_activities, historical_activities>>
           ELSE /\ recent_activities' = split.recent
                /\ historical_activities' = split.historical
                /\ pc' = "group"
                /\ UNCHANGED raised
    /\ UNCHANGED <<inputs, returned, weeks, aggregates, current_week, week_number, result>>

\* Group in a service that keeps its list of aggregates from call to call
GroupKeepingAggregates ==
    /\ pc = "group"
    /\ weeks' = GroupByWeek(historical_activities, [k \in {} |-> <<>>])
    /\ aggregates' = aggregates
    /\ current_week' = _get_week_start(trends_cutoff)
    /\ week_number' = 1
    /\ pc' = "walk"
    /\ UNCHANGED <<inputs, returned, recent_activities, historical_activities, result, raised>>

\* _aggregate_by_week(historical_activities, garmin_data, trends_cutoff,
\* recent_cutoff): the grouping loop and the start of the walk
Group ==
    /\ pc = "group"
    /\ weeks' = GroupByWeek(historical_activities, [k \in {} |-> <<>>])
    /\ aggregates' = <<>>
    /\ current_week' = _get_week_start(trends_cutoff)
    /\ week_number' = 1
    /\ pc' = "walk"
    /\ UNCHANGED <<inputs, returned, recent_activities, historical_activities, result, raised>>

\* EmitWeek joining only the recovery records dated after trends_cutoff and
\* not after recent_cutoff
EmitWeekInsideCutoffs ==
    /\ pc = "walk"
    /\ InWalk(current_week, recent_cutoff)
    /\ LET Inside(r) == LET d == FromIsoFormat(r.date.form, r.date.ymd)
                        IN  d = NoDate \/ (trends_cutoff < d /\ d <= recent_cutoff)
           inside == [garmin_data EXCEPT
                         !.recovery_indicators = SelectSeq(@, Inside)]
           made == _create_weekly_aggregate(current_week, WeeksGet(weeks, current_week),
                                            inside, week_number)
       IN  IF made.raised # ""
           THEN /\ pc' = "raised"
                /\ raised' = made.raised
                /\ UNCHANGED <<aggregates, current_week, week_number>>
           ELSE /\ aggregates' = Append(aggregates, made.agg)
                /\ current_week' = NextWeek(current_week)
                /\ week_number' = week_number + 1
                /\ UNCHANGED <<pc, raised>>
    /\ UNCHANGED <<inputs, returned, recent_activities, historical_activities, weeks, result>>

\* one iteration of "while current_week < end_date"
EmitWeek ==
    /\ pc = "walk"
    /\ InWalk(current_week, recent_cutoff)
    /\ LET made == _create_weekly_aggregate(current_week, WeeksGet(weeks, current_week),
                                            garmin_data, week_number)
       IN  IF made.raised # ""
           THEN /\ pc' = "raised"
                /\ raised' = made.raised
                /\ UNCHANGED <<aggregates, current_week, week_number>>
           ELSE /\ aggregates' = Append(aggregates, made.agg)
                /\ current_week' = NextWeek(current_week)
                /\ week_number' = week_number + 1
                /\ UNCHANGED <<pc, raised>>
    /\ UNCHANGED <<inputs, returned, recent_activities, historical_activities, weeks, result>>

\* the end of the walk: the sort and the projection of _aggregate_by_week, then
\* the current metrics and the PreparedContext of prepare_agent_context
Finish ==
    /\ pc = "walk"
    /\ ~InWalk(current_week, recent_cutoff)
    /\ LET sorted == SortByWeekStart(aggregates)
       IN  result' =
             [set               |-> TRUE,
              recent_activities |-> recent_activities,
              weekly_trends     |-> [k \in 1..Len(sorted) |-> to_dict(sorted[k])],
              current_metrics   |-> _extract_current_metrics(garmin_data),
              metadata |->
                [preparation_date   |-> IsoFormat(analysis_date),
                 recent_window_days |-> recent_window_days,
                 trends_window_days |-> trends_window_days]]
    /\ pc' = "done"
    /\ UNCHANGED <<inputs, returned, recent_activities, historical_activities, weeks, aggregates,
                   current_week, week_number, raised>>

Next == Split \/ Group \/ EmitWeek \/ Finish

(* ------------------------------------------------------------------ *)
(* Inputs                                                              *)
(* ------------------------------------------------------------------ *)

Summary(distance, duration, elevation_gain, average_hr, max_hr, load) ==
    [t |-> "dict", distance |-> distance, duration |-> duration,
     elevation_gain |-> elevation_gain, average_hr |-> average_hr, max_hr |-> max_hr,
     activity_training_load |-> load]

\* a summary that is absent ("missing"), None ("null") or a string ("str")
NoSummary(tag) ==
    [t |-> tag, distance |-> Missing, duration |-> Missing, elevation_gain |-> Missing,
     average_hr |-> Missing, max_hr |-> Missing, activity_training_load |-> Missing]

Activity(activity_type, start_time, summary) ==
    [activity_type |-> activity_type, start_time |-> start_time, summary |-> summary]

Sleep(resting_heart_rate, duration) ==
    [t |-> "dict", resting_heart_rate |-> resting_heart_rate, duration |-> duration]

Duration(total) == [t |-> "dict", total |-> total]

NoDuration(tag) == [t |-> tag, total |-> Missing]

NoSleep(tag) == [t |-> tag, resting_heart_rate |-> Missing, duration |-> NoDuration("missing")]

Recovery(date, sleep) == [date |-> date, sleep |-> sleep]

\* physiological_markers, training_status and daily_stats all {}
NoMarkers ==
    [physiological_markers |->
        [t |-> "dict", resting_heart_rate |-> Missing, vo2_max |-> Missing, hrv |-> Missing],
     training_status |->
        [t |-> "dict",
         acute_training_load |->
            [t |-> "missing", acute_load |-> Missing, chronic_load |-> Missing,
             acwr |-> Missing]],
     daily_stats |->
        [t |-> "dict", average_stress_level |-> Missing, resting_heart_rate |-> Missing]]

\* the markers of the tests' sample dataset
SampleMarkers ==
    [physiological_markers |->
        [t |-> "dict", resting_heart_rate |-> Num(RInt(52)), vo2_max |-> Num(Rat(117, 2)),
         hrv |-> Num(RInt(65))],
     training_status |->
        [t |-> "dict",
         acute_training_load |->
            [t |-> "dict", acute_load |-> Num(RInt(450)), chronic_load |-> Num(RInt(380)),
             acwr |-> Num(Rat(118, 100))]],
     daily_stats |->
        [t |-> "dict", average_stress_level |-> Num(RInt(35)),
         resting_heart_rate |-> Num(RInt(52))]]

GarminData(activities, recovery, markers) ==
    [recent_activities     |-> activities,
     recovery_indicators   |-> recovery,
     physiological_markers |-> markers.physiological_markers,
     training_status       |-> markers.training_status,
     daily_stats           |-> markers.daily_stats]

\* the sequences of at most n elements of S
SeqsUpTo(S, n) == UNION {[1..k -> S] : k \in 0..n}

\* the state at the call
Start(data, date, recent, trends) ==
    /\ garmin_data = data
    /\ analysis_date = date
    /\ recent_window_days = recent
    /\ trends_window_days = trends
    /\ pc = "split"
    /\ recent_activities = <<>>
    /\ historical_activities = <<>>
    /\ weeks = [k \in {} |-> <<>>]
    /\ aggregates = <<>>
    /\ current_week = NoDate
    /\ week_number = 0
    /\ result = NoResult
    /\ raised = ""
    /\ returned = <<>>

(* ------------------------------------------------------------------ *)
(* Windows: every weekday of the analysis date, both window lengths     *)
(* and the activity dates vary                                         *)
(* ------------------------------------------------------------------ *)

MaxRecentWindow == 2

MaxTrendsWindow == 9

MaxActivities == 2

\* Monday 2025-01-06: the windows reach back into December 2024
FirstAnalysisDate == ToOrdinal([y |-> 2025, m |-> 1, d |-> 6])

AnalysisDates == FirstAnalysisDate..(FirstAnalysisDate + 6)

\* the three accepted encodings, taken in turn
FormOf(k) == CASE k % 3 = 0 -> "date" [] k % 3 = 1 -> "datetime" [] OTHER -> "datetimeZ"

\* a 5 km, 30 min run
PlainSummary == Summary(Num(RInt(5000)), Num(RInt(1800)), Num(RInt(50)),
                        Num(RInt(145)), Num(RInt(165)), Num(RInt(85)))

\* an activity of the given day, its timestamp in the encoding of that day
ActivityOn(day, summary) ==
    Activity(TypeStr("running"), TimeStr(FormOf(day), IsoFormat(day)), summary)

UndatedActivity == Activity(TypeStr("running"), TimeStr("text", NoYMD), PlainSummary)

\* the days around the two cutoffs, and the analysis date
BoundaryDays(date, recent, trends) ==
    {date, date - recent + 1, date - recent, date - recent - 1,
     date - trends + 1, date - trends}

WindowActivities(date, recent, trends) ==
    {ActivityOn(day, PlainSummary) : day \in BoundaryDays(date, recent, trends)}
        \cup {UndatedActivity}

InitWindows ==
    \E date \in AnalysisDates, recent \in 0..MaxRecentWindow, trends \in 0..MaxTrendsWindow :
        \E activities \in SeqsUpTo(WindowActivities(date, recent, trends), MaxActivities) :
            Start(GarminData(activities, <<>>, NoMarkers), date, recent, trends)

SpecWindows == InitWindows /\ [][Next]_vars

(* ------------------------------------------------------------------ *)
(* Aggregation: a fixed date and fixed windows, the summaries vary     *)
(* ------------------------------------------------------------------ *)

\* Thursday 2025-01-09 with a recent window of 1 day and a trends window of 9:
\* recent_cutoff is Wednesday 2025-01-08, trends_cutoff Tuesday 2024-12-31,
\* and the weeks of 2024-12-30 and of 2025-01-06 are emitted
FixedDate == FirstAnalysisDate + 3

FixedRecent == 1

FixedTrends == 9

\* a day of the first and a day of the second emitted week, both historical
AggregateDays == {FixedDate - 7, FixedDate - 2}

Km10 == Summary(Num(RInt(10000)), Num(RInt(3600)), Num(RInt(50)),
                Num(RInt(140)), Num(RInt(165)), Num(RInt(85)))

Km20 == Summary(Num(RInt(20000)), Num(RInt(5400)), Num(RInt(200)),
                Num(RInt(150)), Num(RInt(172)), Num(RInt(120)))

\* 1.234 km in 1000 s
Short == Summary(Num(RInt(1234)), Num(RInt(1000)), Num(RInt(7)),
                 Num(RInt(150)), Num(RInt(172)), Num(RInt(85)))

Zeros == Summary(Num(RZero), Num(RZero), Num(RZero), Num(RZero), Num(RZero), Num(RZero))

\* 4 m in 10 s: less than 0.005 km and less than 0.005 h
Tiny == Summary(Num(RInt(4)), Num(RInt(10)), Num(RZero), Num(RZero), Num(RZero), Num(RZero))

\* every field missing, None, or a string that is no number
AllFields(value) == Summary(value, value, value, value, value, value)

\* Km10 with one field missing, None or a string that is no number
OneFieldBad ==
    {[Km10 EXCEPT !.distance = Missing],
     [Km10 EXCEPT !.duration = Null],
     [Km10 EXCEPT !.elevation_gain = BadStr],
     [Km10 EXCEPT !.activity_training_load = Missing],
     [Km10 EXCEPT !.average_hr = Null],
     [Km10 EXCEPT !.max_hr = BadStr]}

Summaries ==
    {Km10, Km20, Short, Zeros, Tiny, AllFields(Missing), AllFields(Null), AllFields(BadStr),
     NoSummary("missing"), NoSummary("null"), NoSummary("str")} \cup OneFieldBad

\* the tag goes with the summary: cycling for Km20, none for Short, None for Zeros
TypeFor(summary) ==
    CASE summary = Km20  -> TypeStr("cycling")
      [] summary = Short -> TypeMissing
      [] summary = Zeros -> TypeNull
      [] OTHER           -> TypeStr("running")

AggregateActivities ==
    {Activity(TypeFor(summary), TimeStr(FormOf(day), IsoFormat(day)), summary) :
        day \in AggregateDays, summary \in Summaries}

InitAggregate ==
    \E activities \in SeqsUpTo(AggregateActivities, MaxActivities) :
        Start(GarminData(activities, <<>>, SampleMarkers), FixedDate, FixedRecent, FixedTrends)

SpecAggregate == InitAggregate /\ [][Next]_vars

(* ------------------------------------------------------------------ *)
(* Timestamps: a fixed date and fixed windows, the encodings vary      *)
(* ------------------------------------------------------------------ *)

MaxTimestamps == 3

\* the four encodings _parse_activity_date reads a date from
Encodings == {"date", "datetime", "datetimeZ", "datetimeUTC"}

\* a recent day (the analysis date) and a day of the first emitted week
TimestampDays == {FixedDate, FixedDate - 7}

\* 2025-02-30, in the recent window if there were such a day
NoSuchDay == [y |-> 2025, m |-> 2, d |-> 30]

StampedActivity(start_time) == Activity(TypeStr("running"), start_time, PlainSummary)

\* every encoding of the two days; a day that does not exist; no field, None,
\* "", strings in another format, and a number
TimestampActivities ==
    {StampedActivity(TimeStr(form, IsoFormat(day))) : form \in Encodings, day \in TimestampDays}
        \cup {StampedActivity(TimeStr("datetimeZ", NoSuchDay))}
        \cup {StampedActivity(TimeStr(form, NoYMD)) :
                  form \in {"missing", "null", "empty", "text", "textT", "number"}}

InitTimestamps ==
    \E activities \in SeqsUpTo(TimestampActivities, MaxTimestamps) :
        Start(GarminData(activities, <<>>, NoMarkers), FixedDate, FixedRecent, FixedTrends)

SpecTimestamps == InitTimestamps /\ [][Next]_vars

(* ------------------------------------------------------------------ *)
(* Recovery: a fixed date and fixed windows, the recovery records vary *)
(* ------------------------------------------------------------------ *)

MaxRecoveries == 3

\* Monday 2024-12-30, the start of the first emitted week
Week1 == FixedDate - 10

DateStr(day) == TimeStr("date", IsoFormat(day))

SleepOf(resting_heart_rate, total) == Sleep(resting_heart_rate, Duration(total))

RecoveryRecords ==
    {Recovery(DateStr(Week1), SleepOf(Num(RInt(50)), Num(RInt(7)))),                \* on week_start
     Recovery(DateStr(Week1 + 6), SleepOf(Num(RInt(51)), Num(RInt(8)))),            \* on week_end
     Recovery(TimeStr("datetime", IsoFormat(Week1 + 2)),
              Sleep(Num(RInt(50)), NoDuration("missing"))),                         \* no duration
     Recovery(DateStr(Week1 + 3), SleepOf(Null, Num(Rat(15, 2)))),                  \* no heart rate
     Recovery(DateStr(Week1 + 5), SleepOf(BadStr, Num(RInt(9)))),                   \* heart rate no number
     Recovery(DateStr(Week1 + 4), SleepOf(Num(RZero), Num(RZero))),                 \* zeros
     Recovery(DateStr(Week1 + 4), NoSleep("missing")),                              \* no sleep block
     Recovery(DateStr(Week1 + 4), NoSleep("null")),                                 \* sleep: None
     Recovery(DateStr(Week1 + 4), Sleep(Num(RInt(50)), NoDuration("null"))),        \* duration: None
     Recovery(DateStr(Week1 - 1), SleepOf(Num(RInt(60)), Num(RInt(9)))),            \* the day before
     Recovery(DateStr(Week1 + 7), SleepOf(Num(RInt(70)), Num(RInt(6)))),            \* the next week
     Recovery(TimeStr("text", NoYMD), SleepOf(Num(RInt(90)), Num(RInt(5)))),        \* no date in it
     Recovery(TimeStr("missing", NoYMD), SleepOf(Num(RInt(90)), Num(RInt(5))))}     \* no date field

InitRecovery ==
    \E recovery \in SeqsUpTo(RecoveryRecords, MaxRecoveries) :
        \E activities \in {<<>>, <<ActivityOn(Week1 + 1, Km10)>>} :
            Start(GarminData(activities, recovery, SampleMarkers),
                  FixedDate, FixedRecent, FixedTrends)

SpecRecovery == InitRecovery /\ [][Next]_vars

(* ------------------------------------------------------------------ *)
(* Intensity: a fixed date and fixed windows; the loads, the heart     *)
(* rates and the types vary                                            *)
(* ------------------------------------------------------------------ *)

MaxIntense == 3

\* a summary of 5 km in 30 min with the given load and heart rates
Effort(load, average_hr, max_hr) ==
    Summary(Num(RInt(5000)), Num(RInt(1800)), Num(RInt(50)), average_hr, max_hr, load)

\* an activity of the first emitted week
Intense(activity_type, load, average_hr, max_hr) ==
    Activity(activity_type, TimeStr("datetime", IsoFormat(FixedDate - 7)),
             Effort(load, average_hr, max_hr))

\* loads that tie (120), that sum to a second decimal (85.25, 0.04), that are
\* 0, missing, None or no number; heart rates likewise, one of them 172.5
IntenseActivities ==
    {Intense(TypeStr("running"),  Num(RInt(85)),     Num(RInt(140)), Num(RInt(165))),
     Intense(TypeStr("cycling"),  Num(RInt(120)),    Num(RInt(150)), Num(RInt(172))),
     Intense(TypeStr("swimming"), Num(RInt(120)),    Num(RInt(151)), Num(Rat(345, 2))),
     Intense(TypeStr("running"),  Num(RZero),        Num(RZero),     Num(RZero)),
     Intense(TypeMissing,         Num(Rat(341, 4)),  Missing,        Missing),
     Intense(TypeNull,            Num(RInt(200)),    Null,           Null),
     Intense(TypeStr("hiking"),   Num(Rat(1, 25)),   BadStr,         Num(Rat(1, 2))),
     Intense(TypeStr("running"),  BadStr,            Num(Rat(1, 25)), BadStr),
     Intense(TypeStr("cycling"),  Missing,           Num(RInt(145)), Num(RInt(180))),
     ActivityOn(FixedDate - 2, Km20)}

InitIntensity ==
    \E activities \in SeqsUpTo(IntenseActivities, MaxIntense) :
        Start(GarminData(activities, <<>>, NoMarkers), FixedDate, FixedRecent, FixedTrends)

SpecIntensity == InitIntensity /\ [][Next]_vars

(* ------------------------------------------------------------------ *)
(* Metrics: a fixed date and fixed windows; the marker mappings vary   *)
(* ------------------------------------------------------------------ *)

\* a field is absent or has the value
Maybe(value) == {Missing, value}

\* hrv as the mapping {"weekly_avg": 65, "last_night_avg": 68}
HrvMapping == [t |-> "dict", v |-> RZero]

\* physiological_markers: absent, or a mapping of some of its fields, or all 0
PhysiologicalBlocks ==
    {[t |-> "missing", resting_heart_rate |-> Missing, vo2_max |-> Missing, hrv |-> Missing],
     [t |-> "dict", resting_heart_rate |-> Num(RZero), vo2_max |-> Num(RZero),
      hrv |-> Num(RZero)]}
    \cup [t : {"dict"}, resting_heart_rate : Maybe(Num(RInt(52))),
          vo2_max : Maybe(Num(Rat(117, 2))), hrv : Maybe(Num(RInt(65))) \cup {HrvMapping}]

\* acute_training_load: absent, or a mapping of some of its fields, or all 0
AcuteBlocks ==
    {[t |-> "missing", acute_load |-> Missing, chronic_load |-> Missing, acwr |-> Missing],
     [t |-> "dict", acute_load |-> Num(RZero), chronic_load |-> Num(RZero),
      acwr |-> Num(RZero)]}
    \cup [t : {"dict"}, acute_load : Maybe(Num(RInt(450))),
          chronic_load : Maybe(Num(RInt(380))), acwr : Maybe(Num(Rat(118, 100)))]

\* training_status: absent, or a mapping with or without acute_training_load
TrainingBlocks ==
    {[t |-> "missing",
      acute_training_load |-> [t |-> "missing", acute_load |-> Missing,
                               chronic_load |-> Missing, acwr |-> Missing]]}
    \cup [t : {"dict"}, acute_training_load : AcuteBlocks]

\* daily_stats: absent, or a mapping of some of its fields, or all 0
DailyBlocks ==
    {[t |-> "missing", average_stress_level |-> Missing, resting_heart_rate |-> Missing],
     [t |-> "dict", average_stress_level |-> Num(RZero), resting_heart_rate |-> Num(RZero)]}
    \cup [t : {"dict"}, average_stress_level : Maybe(Num(RInt(35))),
          resting_heart_rate : Maybe(Num(RInt(52)))]

InitMetrics ==
    \E physiological \in PhysiologicalBlocks, training \in TrainingBlocks,
       daily \in DailyBlocks :
        Start(GarminData(<<>>, <<>>,
                         [physiological_markers |-> physiological,
                          training_status |-> training, daily_stats |-> daily]),
              FixedDate, FixedRecent, FixedTrends)

SpecMetrics == InitMetrics /\ [][Next]_vars

(* ------------------------------------------------------------------ *)
(* Calls: several calls, one after the other, in one process           *)
(* ------------------------------------------------------------------ *)

MaxCalls == 3

\* a dataset of two activities with recovery records, one of one activity,
\* and one whose activity has None for its summary
CallDatasets ==
    {GarminData(<<ActivityOn(FixedDate - 7, Km10), ActivityOn(FixedDate, Km20)>>,
                <<Recovery(DateStr(Week1), SleepOf(Num(RInt(50)), Num(RInt(7))))>>,
                SampleMarkers),
     GarminData(<<ActivityOn(FixedDate - 2, Short)>>, <<>>, NoMarkers),
     GarminData(<<ActivityOn(FixedDate - 7, NoSummary("null"))>>, <<>>, SampleMarkers)}

CallDates == {FixedDate, FixedDate + 1}

\* the arguments and the outcome of the call that has just ended
ThisCall ==
    [garmin_data |-> garmin_data, analysis_date |-> analysis_date,
     recent_window_days |-> recent_window_days, trends_window_days |-> trends_window_days,
     result |-> result, raised |-> raised]

\* the module-level prepare_agent_context called once more: a new service
\* and a new frame, whose locals are assigned before they are read
CallAgain ==
    /\ pc \in {"done", "raised"}
    /\ Len(returned) < MaxCalls - 1
    /\ returned' = Append(returned, ThisCall)
    /\ garmin_data' \in CallDatasets
    /\ analysis_date' \in CallDates
    /\ pc' = "split"
    /\ result' = NoResult
    /\ raised' = ""
    /\ UNCHANGED <<recent_window_days, trends_window_days, recent_activities,
                   historical_activities, weeks, aggregates, current_week, week_number>>

InitCalls ==
    \E data \in CallDatasets, date \in CallDates :
        Start(data, date, FixedRecent, FixedTrends)

NextCalls == Next \/ CallAgain

SpecCalls == InitCalls /\ [][NextCalls]_vars

(* ------------------------------------------------------------------ *)
(* Slices: calls on datasets that differ in one week and agree in      *)
(* another                                                             *)
(* ------------------------------------------------------------------ *)

MaxSliceCalls == 2

\* an activity of the first emitted week and one of the second
SliceActivities == {ActivityOn(FixedDate - 7, Km10), ActivityOn(FixedDate - 2, Km20)}

\* a recovery record of the first emitted week and one of the second
SliceRecoveries ==
    {Recovery(DateStr(Week1 + 2), SleepOf(Num(RInt(50)), Num(RInt(7)))),
     Recovery(DateStr(Week1 + 8), SleepOf(Num(RInt(60)), Num(RInt(9))))}

SliceDatasets ==
    {GarminData(activities, recovery, NoMarkers) :
        activities \in SeqsUpTo(SliceActivities, 2),
        recovery \in {r \in SeqsUpTo(SliceRecoveries, 2) :
                          \A i, j \in DOMAIN r : i < j => IsoStrLess(r[i].date.ymd, r[j].date.ymd)}}

\* one more call, with the same date and windows, on another dataset
CallOnSlices ==
    /\ pc \in {"done", "raised"}
    /\ Len(returned) < MaxSliceCalls - 1
    /\ returned' = Append(returned, ThisCall)
    /\ garmin_data' \in SliceDatasets
    /\ pc' = "split"
    /\ result' = NoResult
    /\ raised' = ""
    /\ UNCHANGED <<analysis_date, recent_window_days, trends_window_days, recent_activities,
                   historical_activities, weeks, aggregates, current_week, week_number>>

InitSlices ==
    \E data \in SliceDatasets : Start(data, FixedDate, FixedRecent, FixedTrends)

NextSlices == Next \/ CallOnSlices

SpecSlices == InitSlices /\ [][NextSlices]_vars

(* ------------------------------------------------------------------ *)
(* Sharing: the caller writes to an activity mapping after the call    *)
(* ------------------------------------------------------------------ *)

MaxShared == 3

SharedActivities == {ActivityOn(FixedDate, Km10), ActivityOn(FixedDate - 7, Km20)}

\* the activity type the caller writes
Edited == TypeStr("edited")

\* the recent list holds the activity mappings of the input themselves
\* (append stores a reference): entry j of the list is the object at
\* RecentSources[j] of the input list
RecentSources ==
    LET RECURSIVE Walk(_)
        Walk(i) ==
            IF i > Len(garmin_data.recent_activities) THEN <<>>
            ELSE LET d == _parse_activity_date(garmin_data.recent_activities[i])
                 IN  IF d # NoDate /\ d > recent_cutoff
                     THEN <<i>> \o Walk(i + 1)
                     ELSE Walk(i + 1)
    IN  Walk(1)

\* after the call has returned, the caller assigns the activity type of the
\* i-th activity mapping of its dataset; the list the result holds sees it
ModifyActivity ==
    /\ pc = "done"
    /\ \E i \in DOMAIN garmin_data.recent_activities :
          /\ garmin_data.recent_activities[i].activity_type # Edited
          /\ garmin_data' =
                [garmin_data EXCEPT !.recent_activities[i].activity_type = Edited]
          /\ LET shared == [j \in DOMAIN recent_activities |->
                              IF RecentSources[j] = i
                              THEN [recent_activities[j] EXCEPT !.activity_type = Edited]
                              ELSE recent_activities[j]]
             IN  /\ recent_activities' = shared
                 /\ result' = [result EXCEPT !.recent_activities = shared]
    /\ UNCHANGED <<analysis_date, recent_window_days, trends_window_days, pc,
                   historical_activities, weeks, aggregates, current_week, week_number,
                   raised, returned>>

InitShared ==
    \E activities \in SeqsUpTo(SharedActivities, MaxShared), markers \in {NoMarkers, SampleMarkers} :
        Start(GarminData(activities, <<>>, markers), FixedDate, FixedRecent, FixedTrends)

NextShared == Next \/ ModifyActivity

SpecShared == InitShared /\ [][NextShared]_vars

(* ------------------------------------------------------------------ *)
(* Join: recovery records and activities on both sides of the cutoffs  *)
(* ------------------------------------------------------------------ *)

MaxJoined == 2

\* the day before the first emitted week; its Monday and its Tuesday, both
\* not after trends_cutoff; the Monday of the second week; the analysis date
\* and the Sunday after it, both after recent_cutoff; the Monday after that
JoinDays == {Week1 - 1, Week1, Week1 + 1, Week1 + 7, Week1 + 10, Week1 + 13, Week1 + 14}

\* a record per day, each with figures of its own
JoinRecords ==
    {Recovery(DateStr(day),
              SleepOf(Num(RInt(50 + (day - Week1))), Num(RInt(5 + ((day - Week1 + 1) % 5))))) :
        day \in JoinDays}

JoinActivities == {ActivityOn(day, Km10) : day \in {Week1, Week1 + 3, Week1 + 10}}

InitJoin ==
    \E recovery \in SeqsUpTo(JoinRecords, MaxJoined), activities \in SeqsUpTo(JoinActivities, 1) :
        Start(GarminData(activities, recovery, NoMarkers), FixedDate, FixedRecent, FixedTrends)

SpecJoin == InitJoin /\ [][Next]_vars

(* ------------------------------------------------------------------ *)
(* Walk: window lengths of either sign, the trends window also the     *)
(* shorter one                                                         *)
(* ------------------------------------------------------------------ *)

MaxNegativeWindow == 2

MaxWalkRecent == 3

MaxWalkTrends == 15

WalkWindows == [recent : (0 - MaxNegativeWindow)..MaxWalkRecent,
                trends : (0 - MaxNegativeWindow)..MaxWalkTrends]

\* a first call, of no window at all
InitWalk == Start(GarminData(<<>>, <<>>, NoMarkers), FirstAnalysisDate, 0, 0)

\* the module-level prepare_agent_context called for a second time, with any
\* date and any pair of window lengths
CallWithWindows ==
    /\ pc = "done"
    /\ returned = <<>>
    /\ returned' = <<ThisCall>>
    /\ \E date \in AnalysisDates, windows \in WalkWindows :
          /\ analysis_date' = date
          /\ recent_window_days' = windows.recent
          /\ trends_window_days' = windows.trends
          /\ \E activities \in {<<>>, <<ActivityOn(date - windows.recent, PlainSummary)>>} :
                garmin_data' = GarminData(activities, <<>>, NoMarkers)
    /\ pc' = "split"
    /\ result' = NoResult
    /\ raised' = ""
    /\ UNCHANGED <<recent_activities, historical_activities, weeks, aggregates, current_week,
                   week_number>>

NextWalk == Next \/ CallWithWindows

\* a call is one thread that runs on until it returns or raises: weak
\* fairness of Next, which is enabled exactly while the call has not ended
RunsOn == []<>(pc \in {"done", "raised"}) \/ []<><<Next>>_vars

SpecWalk == InitWalk /\ [][NextWalk]_vars /\ RunsOn

(* ------------------------------------------------------------------ *)
(* One call, its inputs from any of the families                       *)
(* ------------------------------------------------------------------ *)

Init == InitWindows \/ InitAggregate \/ InitRecovery \/ InitTimestamps \/ InitCalls
          \/ InitIntensity \/ InitMetrics \/ InitSlices \/ InitShared \/ InitJoin \/ InitWalk

Spec == Init /\ [][Next]_vars

(* ------------------------------------------------------------------ *)
(* Properties: notions shared by the statements                        *)
(* ------------------------------------------------------------------ *)

input_activities == garmin_data.recent_activities

InRecent(a) == \E k \in DOMAIN recent_activities : recent_activities[k] = a

InHistorical(a) == \E k \in DOMAIN historical_activities : historical_activities[k] = a

\* the Monday on or before a day
MondayOnOrBefore(day) == CHOOSE m \in (day - 6)..day : Weekday(m) = 0

\* the week starts of the result, as ordinals
WeekStarts == {ToOrdinal(result.weekly_trends[k].week_start) : k \in DOMAIN result.weekly_trends}

NumWeeks == Len(result.weekly_trends)

(* ------------------------------------------------------------------ *)
(* C1                                                                  *)
(* ------------------------------------------------------------------ *)

\* C1 as stated: every activity with a parseable date d is recent iff
\* d > recent_cutoff, historical iff recent_cutoff >= d > trends_cutoff, and
\* discarded iff d <= trends_cutoff, for every pair of window lengths.
C1_PartitionAsStated ==
    pc # "split" =>
        \A i \in DOMAIN input_activities :
            LET a == input_activities[i]
                d == _parse_activity_date(a)
            IN  d # NoDate =>
                  /\ InRecent(a) <=> d > recent_cutoff
                  /\ InHistorical(a) <=> (recent_cutoff >= d /\ d > trends_cutoff)
                  /\ (~InRecent(a) /\ ~InHistorical(a)) <=> d <= trends_cutoff

\* C1 amended: every activity with a parseable date d is in exactly one
\* bucket: recent iff d > recent_cutoff, historical iff recent_cutoff >= d >
\* trends_cutoff, discarded iff d <= trends_cutoff and d <= recent_cutoff. An
\* activity dated exactly on recent_cutoff is never recent and is historical
\* when trends_cutoff < recent_cutoff; a recent activity is at most
\* recent_window_days older than the analysis date; the two kept buckets hold
\* each kept activity once and no unparseable one.
C1_Partition ==
    pc # "split" =>
        /\ \A i \in DOMAIN input_activities :
            LET a == input_activities[i]
                d == _parse_activity_date(a)
            IN  /\ d # NoDate =>
                      /\ InRecent(a) <=> d > recent_cutoff
                      /\ InHistorical(a) <=> (recent_cutoff >= d /\ d > trends_cutoff)
                      /\ (~InRecent(a) /\ ~InHistorical(a)) <=>
                             (d <= trends_cutoff /\ d <= recent_cutoff)
                      /\ ~(InRecent(a) /\ InHistorical(a))
                      /\ d = recent_cutoff =>
                             /\ ~InRecent(a)
                             /\ trends_cutoff < recent_cutoff => InHistorical(a)
                /\ d = NoDate => (~InRecent(a) /\ ~InHistorical(a))
        /\ Len(recent_activities) + Len(historical_activities) =
              Cardinality({i \in DOMAIN input_activities :
                  LET d == _parse_activity_date(input_activities[i])
                  IN  d # NoDate /\ (d > recent_cutoff \/ d > trends_cutoff)})
        /\ \A k \in DOMAIN recent_activities :
              analysis_date - _parse_activity_date(recent_activities[k]) <= recent_window_days

\* an activity dated exactly on recent_cutoff went to the historical bucket,
\* another one to the recent bucket
C1_Witness ==
    /\ pc = "group"
    /\ Len(recent_activities) = 1
    /\ \E k \in DOMAIN historical_activities :
          _parse_activity_date(historical_activities[k]) = recent_cutoff

(* ------------------------------------------------------------------ *)
(* C2                                                                  *)
(* ------------------------------------------------------------------ *)

\* the number of 7-day steps from the Monday on or before trends_cutoff up to,
\* exclusive, recent_cutoff: a function of the date and the two lengths alone
WeekSteps ==
    Cardinality({k \in 0..(trends_window_days + 1) :
                    MondayOnOrBefore(trends_cutoff) + 7 * k < recent_cutoff})

\* C2: the number of entries of weekly_trends is the number of 7-day steps
\* from the Monday on or before trends_cutoff up to, exclusive, recent_cutoff,
\* whatever the dataset, and at least one when trends_window_days >
\* recent_window_days.
C2_WeekCount ==
    pc = "done" =>
        /\ NumWeeks = WeekSteps
        /\ trends_window_days > recent_window_days => NumWeeks >= 1

\* a dataset without activities still got its two or more weeks
C2_Witness ==
    /\ pc = "done"
    /\ input_activities = <<>>
    /\ NumWeeks >= 2

(* ------------------------------------------------------------------ *)
(* C3                                                                  *)
(* ------------------------------------------------------------------ *)

RECURSIVE SumTotalActivities(_)
SumTotalActivities(trends) ==
    IF trends = <<>> THEN 0
    ELSE Head(trends).volume.total_activities + SumTotalActivities(Tail(trends))

\* C3: the total_activities of weekly_trends sum to the size of the historical
\* bucket, and every historical activity has the week of its Monday among the
\* emitted weeks (stated for the ordinary windows, trends_window_days >
\* recent_window_days >= 1).
C3_HistoricalAllCounted ==
    (pc = "done" /\ trends_window_days > recent_window_days /\ recent_window_days >= 1) =>
        /\ SumTotalActivities(result.weekly_trends) = Len(historical_activities)
        /\ \A k \in DOMAIN historical_activities :
              MondayOnOrBefore(_parse_activity_date(historical_activities[k])) \in WeekStarts

(* ------------------------------------------------------------------ *)
(* C4                                                                  *)
(* ------------------------------------------------------------------ *)

\* C4 as stated: the week that contains recent_cutoff is never among the
\* emitted weeks (stated for the ordinary windows, trends_window_days >
\* recent_window_days >= 1).
C4_CutoffWeekNeverEmitted ==
    (pc = "done" /\ trends_window_days > recent_window_days /\ recent_window_days >= 1) =>
        MondayOnOrBefore(recent_cutoff) \notin WeekStarts

\* C4 amended: the emitted weeks are exactly the weeks whose Monday is on or
\* after the Monday of trends_cutoff and strictly before recent_cutoff; the
\* week that contains recent_cutoff is among them exactly when recent_cutoff
\* is not a Monday and the week of trends_cutoff is not later than it.
C4_CutoffWeek ==
    pc = "done" =>
        /\ WeekStarts = {m \in (trends_cutoff - 6)..(recent_cutoff - 1) :
                            Weekday(m) = 0 /\ m >= MondayOnOrBefore(trends_cutoff)}
        /\ MondayOnOrBefore(recent_cutoff) \in WeekStarts <=>
              /\ Weekday(recent_cutoff) # 0
              /\ MondayOnOrBefore(trends_cutoff) <= MondayOnOrBefore(recent_cutoff)

\* recent_cutoff is no Monday and its week is the last of several emitted ones
C4_Witness ==
    /\ pc = "done"
    /\ NumWeeks >= 2
    /\ Weekday(recent_cutoff) # 0
    /\ ToOrdinal(result.weekly_trends[NumWeeks].week_start) = MondayOnOrBefore(recent_cutoff)

(* ------------------------------------------------------------------ *)
(* C5                                                                  *)
(* ------------------------------------------------------------------ *)

\* C5: every week_start is a Monday, every week_end is six days later, the
\* first week_start is the Monday on or before trends_cutoff and each next one
\* is seven days after the one before.
C5_WeekGrid ==
    pc = "done" =>
        \A k \in DOMAIN result.weekly_trends :
            LET w == result.weekly_trends[k]
            IN  /\ ValidYMD(w.week_start) /\ ValidYMD(w.week_end)
                /\ Weekday(ToOrdinal(w.week_start)) = 0
                /\ ToOrdinal(w.week_end) = ToOrdinal(w.week_start) + 6
                /\ k = 1 => ToOrdinal(w.week_start) = MondayOnOrBefore(trends_cutoff)
                /\ k > 1 => ToOrdinal(w.week_start) =
                                ToOrdinal(result.weekly_trends[k - 1].week_start) + 7

\* several weeks, one of them without any activity and one with
C5_Witness ==
    /\ pc = "done"
    /\ NumWeeks >= 2
    /\ \E k \in DOMAIN result.weekly_trends :
          result.weekly_trends[k].volume.total_activities = 0
    /\ \E k \in DOMAIN result.weekly_trends :
          result.weekly_trends[k].volume.total_activities > 0

(* ------------------------------------------------------------------ *)
(* C6                                                                  *)
(* ------------------------------------------------------------------ *)

\* C6: the k-th entry of weekly_trends has week_number k, the entries are in
\* strictly increasing order of week_start, and the sort left the aggregates
\* in the order of the walk.
C6_WeekNumbers ==
    pc = "done" =>
        /\ NumWeeks = Len(aggregates)
        /\ \A k \in DOMAIN result.weekly_trends :
              /\ result.weekly_trends[k].week_number = k
              /\ result.weekly_trends[k] = to_dict(aggregates[k])
              /\ k > 1 => ToOrdinal(result.weekly_trends[k - 1].week_start)
                              < ToOrdinal(result.weekly_trends[k].week_start)

\* the weeks run from December 2024 into January 2025
C6_Witness ==
    /\ pc = "done"
    /\ NumWeeks >= 2
    /\ result.weekly_trends[1].week_start.y = 2024
    /\ result.weekly_trends[NumWeeks].week_start.y = 2025

(* ------------------------------------------------------------------ *)
(* C7                                                                  *)
(* ------------------------------------------------------------------ *)

\* the historical activities, in order, whose date lies in the k-th emitted week
ActivitiesOfWeek(k) ==
    LET start == ToOrdinal(result.weekly_trends[k].week_start)
        InIt(a) == MondayOnOrBefore(_parse_activity_date(a)) = start
    IN  SelectSeq(historical_activities, InIt)

\* what a summary field adds to a sum: its value, 0 when it is missing, None
\* or no number
Contribution(activity, field) ==
    IF activity.summary.t = "dict" /\ activity.summary[field].t = "num"
    THEN activity.summary[field].v ELSE RZero

RECURSIVE SumOfField(_, _)
SumOfField(activities, field) ==
    IF activities = <<>> THEN RZero
    ELSE RAdd(Contribution(Head(activities), field), SumOfField(Tail(activities), field))

\* shown is a multiple of 10^-ndigits at most half a unit away from exact
IsRounded(shown, exact, ndigits) ==
    /\ Pow10(ndigits) % shown.d = 0
    /\ 2 * Pow10(ndigits) * Abs(shown.n * exact.d - exact.n * shown.d) <= shown.d * exact.d

\* C7 as stated: total_activities is the number of activities of the week,
\* total_distance_km the sum of their distances in meters divided by 1000,
\* total_duration_hours the sum of their durations in seconds divided by
\* 3600, total_elevation_gain_m the sum of their elevation gains.
C7_TotalsAsStated ==
    pc = "done" =>
        \A k \in DOMAIN result.weekly_trends :
            LET volume == result.weekly_trends[k].volume
                acts   == ActivitiesOfWeek(k)
            IN  /\ volume.total_activities = Len(acts)
                /\ volume.total_distance_km = RDivInt(SumOfField(acts, "distance"), 1000)
                /\ volume.total_duration_hours = RDivInt(SumOfField(acts, "duration"), 3600)
                /\ volume.total_elevation_gain_m = SumOfField(acts, "elevation_gain")

\* C7 amended: total_activities is the number of activities of the week, and
\* total_distance_km, total_duration_hours and total_elevation_gain_m are the
\* sum of the distances in meters divided by 1000, of the durations in
\* seconds divided by 3600 and of the elevation gains, each rounded to two
\* decimals; a missing, None or non-numeric field adds 0.
C7_Totals ==
    pc = "done" =>
        \A k \in DOMAIN result.weekly_trends :
            LET volume == result.weekly_trends[k].volume
                acts   == ActivitiesOfWeek(k)
            IN  /\ volume.total_activities = Len(acts)
                /\ IsRounded(volume.total_distance_km,
                             RDivInt(SumOfField(acts, "distance"), 1000), 2)
                /\ IsRounded(volume.total_duration_hours,
                             RDivInt(SumOfField(acts, "duration"), 3600), 2)
                /\ IsRounded(volume.total_elevation_gain_m,
                             SumOfField(acts, "elevation_gain"), 2)

\* a week of a 20 km activity and one whose distance is missing shows 20 km
\* in 2.5 hours
C7_Witness ==
    /\ pc = "done"
    /\ \E k \in DOMAIN result.weekly_trends :
          /\ result.weekly_trends[k].volume.total_activities = 2
          /\ result.weekly_trends[k].volume.total_distance_km = RInt(20)
          /\ result.weekly_trends[k].volume.total_duration_hours = Rat(5, 2)
          /\ \E i \in 1..2 : ActivitiesOfWeek(k)[i].summary.distance.t = "missing"

(* ------------------------------------------------------------------ *)
(* C8                                                                  *)
(* ------------------------------------------------------------------ *)

\* C8: whatever is missing, None or a non-numeric string in the activity
\* records, the call raises nothing.
C8_MalformedRecordsNeverRaise == pc # "raised"

(* ------------------------------------------------------------------ *)
(* C9                                                                  *)
(* ------------------------------------------------------------------ *)

\* C9: for every week of the walk, the recovery join completes without
\* raising, whatever entries have no date, no sleep block (missing or None)
\* or no sub-fields.
C9_RecoveryJoinNeverAborts ==
    (pc = "walk" /\ InWalk(current_week, recent_cutoff)) =>
        _extract_weekly_recovery_metrics(garmin_data, current_week, current_week + 6).raised = ""

(* ------------------------------------------------------------------ *)
(* C10                                                                 *)
(* ------------------------------------------------------------------ *)

recovery_records == garmin_data.recovery_indicators

\* the recovery records dated within the k-th emitted week, bounds included
RecordsOfWeek(k) ==
    LET start == ToOrdinal(result.weekly_trends[k].week_start)
        end   == ToOrdinal(result.weekly_trends[k].week_end)
        InIt(r) == LET d == FromIsoFormat(r.date.form, r.date.ymd)
                   IN  d # NoDate /\ start <= d /\ d <= end
    IN  SelectSeq(recovery_records, InIt)

RestingHrOf(r) == r.sleep.resting_heart_rate

TotalSleepOf(r) == r.sleep.duration.total

HasNumber(value) == value.t = "num"

HasNonZero(value) == value.t = "num" /\ value.v.n # 0

RECURSIVE ValuesOf(_)
ValuesOf(fields) ==
    IF fields = <<>> THEN <<>> ELSE <<Head(fields).v>> \o ValuesOf(Tail(fields))

RestingHrs(k) == [i \in DOMAIN RecordsOfWeek(k) |-> RestingHrOf(RecordsOfWeek(k)[i])]

TotalSleeps(k) == [i \in DOMAIN RecordsOfWeek(k) |-> TotalSleepOf(RecordsOfWeek(k)[i])]

\* the mean of a non-empty sequence of numbers
Mean(xs) == RDivInt(SumSeq(xs), Len(xs))

\* C10 as stated: avg_resting_hr (avg_sleep_hours) is the mean of the resting
\* heart rate (total sleep) over the records of the week that carry the
\* sub-field, None when there is none.
C10_RecoveryMeansAsStated ==
    pc = "done" =>
        \A k \in DOMAIN result.weekly_trends :
            LET shown  == result.weekly_trends[k].recovery
                rhrs   == ValuesOf(SelectSeq(RestingHrs(k), HasNumber))
                sleeps == ValuesOf(SelectSeq(TotalSleeps(k), HasNumber))
            IN  /\ shown.avg_resting_hr =
                      (IF rhrs = <<>> THEN NoneVal ELSE Num(Mean(rhrs)))
                /\ shown.avg_sleep_hours =
                      (IF sleeps = <<>> THEN NoneVal ELSE Num(Mean(sleeps)))

\* float(rhr) fails on a string that is no number, and the record is left
\* before its sleep is read
CountsForSleep(r) ==
    /\ HasNonZero(TotalSleepOf(r))
    /\ ~(Truthy(RestingHrOf(r)) /\ ~HasNumber(RestingHrOf(r)))

SleepValues(k) ==
    LET records == SelectSeq(RecordsOfWeek(k), CountsForSleep)
    IN  [i \in DOMAIN records |-> TotalSleepOf(records[i]).v]

RestingHrValues(k) == ValuesOf(SelectSeq(RestingHrs(k), HasNonZero))

\* shown is the mean of xs rounded, None when xs is empty or its mean is 0
ShownMean(shown, xs, ndigits) ==
    IF xs = <<>> \/ Mean(xs) = RZero THEN shown = NoneVal
    ELSE shown.t = "num" /\ IsRounded(shown.v, Mean(xs), ndigits)

\* C10 amended: avg_resting_hr is the mean, rounded to one decimal, of the
\* resting heart rate over the records dated within [week_start, week_end],
\* bounds included, that carry a non-zero number for it; avg_sleep_hours is
\* the mean, rounded to two decimals, of total sleep over the records of the
\* same range that carry a non-zero number for it and whose resting heart
\* rate is not a string that is no number; each is None when no record
\* qualifies.
C10_RecoveryMeans ==
    pc = "done" =>
        \A k \in DOMAIN result.weekly_trends :
            /\ ShownMean(result.weekly_trends[k].recovery.avg_resting_hr, RestingHrValues(k), 1)
            /\ ShownMean(result.weekly_trends[k].recovery.avg_sleep_hours, SleepValues(k), 2)

\* a record dated on week_start (50 bpm, 7 h) and one dated on week_end
\* (51 bpm, 8 h) are both in the first week's means, and one record of the
\* week has no heart rate
C10_Witness ==
    /\ pc = "done"
    /\ \E i, j \in DOMAIN recovery_records :
          /\ FromIsoFormat(recovery_records[i].date.form, recovery_records[i].date.ymd)
                = ToOrdinal(result.weekly_trends[1].week_start)
          /\ FromIsoFormat(recovery_records[j].date.form, recovery_records[j].date.ymd)
                = ToOrdinal(result.weekly_trends[1].week_end)
    /\ Len(RecordsOfWeek(1)) = 3
    /\ result.weekly_trends[1].recovery.avg_resting_hr = Num(Rat(101, 2))
    /\ result.weekly_trends[1].recovery.avg_sleep_hours = Num(Rat(45, 6))

(* ------------------------------------------------------------------ *)
(* C11                                                                 *)
(* ------------------------------------------------------------------ *)

\* the timestamp field is a string, or there is none
StringOrNoTimestamp(a) == a.start_time.form \notin {"number", "null"}

\* the string is one of the encodings of a day of the calendar
Encoded(a) == a.start_time.form \in Encodings /\ ValidYMD(a.start_time.ymd)

Dated(a) == _parse_activity_date(a) \notin {NoDate, TypeErrorRaised}

\* the batch without its undated activities
DatedOnly(activities) == SelectSeq(activities, Dated)

SplitOf(activities) == SplitActivities(activities, recent_cutoff, trends_cutoff, NoSplit)

\* the k-th weekly aggregate of a historical bucket
TrendOf(historical, k) ==
    LET week_start == _get_week_start(trends_cutoff) + 7 * (k - 1)
    IN  to_dict(_create_weekly_aggregate(
                    week_start,
                    WeeksGet(GroupByWeek(historical, [w \in {} |-> <<>>]), week_start),
                    garmin_data, k).agg)

\* C11: for a string timestamp (or none) date extraction raises nothing and
\* gives the date written in it or None: None for a missing or empty field
\* and for a string in another format. An undated activity is in neither
\* bucket and in no week, and the result is the one of the batch without the
\* undated activities.
C11_UndatedSkipped ==
    /\ \A i \in DOMAIN input_activities :
          LET a == input_activities[i]
          IN  StringOrNoTimestamp(a) =>
                /\ _parse_activity_date(a) # TypeErrorRaised
                /\ Encoded(a) => _parse_activity_date(a) = ToOrdinal(a.start_time.ymd)
                /\ ~Encoded(a) => _parse_activity_date(a) = NoDate
    /\ (\A i \in DOMAIN input_activities : StringOrNoTimestamp(input_activities[i]))
          => pc # "raised"
    /\ pc = "done" =>
          /\ \A i \in DOMAIN input_activities :
                ~Dated(input_activities[i]) =>
                    /\ ~InRecent(input_activities[i])
                    /\ ~InHistorical(input_activities[i])
          /\ result.recent_activities = SplitOf(DatedOnly(input_activities)).recent
          /\ SumTotalActivities(result.weekly_trends)
                = Len(SplitOf(DatedOnly(input_activities)).historical)
          /\ \A k \in DOMAIN result.weekly_trends :
                result.weekly_trends[k]
                    = TrendOf(SplitOf(DatedOnly(input_activities)).historical, k)

\* a batch of a recent activity, one in another format and one of the first
\* week: one recent activity and one in the first week come out
C11_Witness ==
    /\ pc = "done"
    /\ Len(input_activities) = 3
    /\ Dated(input_activities[1])
    /\ input_activities[2].start_time.form = "text"
    /\ Dated(input_activities[3])
    /\ Len(result.recent_activities) = 1
    /\ result.weekly_trends[1].volume.total_activities = 1

(* ------------------------------------------------------------------ *)
(* C12                                                                 *)
(* ------------------------------------------------------------------ *)

\* the calls that have ended, the last one included
EndedCalls == IF pc \in {"done", "raised"} THEN Append(returned, ThisCall) ELSE returned

SameArguments(c1, c2) ==
    /\ c1.garmin_data = c2.garmin_data
    /\ c1.analysis_date = c2.analysis_date
    /\ c1.recent_window_days = c2.recent_window_days
    /\ c1.trends_window_days = c2.trends_window_days

\* C12: two calls with the same dataset, analysis date and window lengths
\* have the same outcome (recent_activities, weekly_trends, current_metrics,
\* metadata, or the same exception), whatever calls came before or between.
C12_Deterministic ==
    \A i, j \in DOMAIN EndedCalls :
        SameArguments(EndedCalls[i], EndedCalls[j]) =>
            /\ EndedCalls[i].result = EndedCalls[j].result
            /\ EndedCalls[i].raised = EndedCalls[j].raised

\* the third call has the arguments of the first and not of the second, and
\* has returned two weeks
C12_Witness ==
    /\ pc = "done"
    /\ Len(returned) = 2
    /\ SameArguments(returned[1], ThisCall)
    /\ returned[2].garmin_data # garmin_data
    /\ returned[1].result.set
    /\ Len(result.weekly_trends) = 2
    /\ result.weekly_trends[1].volume.total_activities = 1

(* ------------------------------------------------------------------ *)
(* C13                                                                 *)
(* ------------------------------------------------------------------ *)

\* C13: no step of the call changes the input dataset: the activity list,
\* its records and their summaries, the recovery list and the three marker
\* mappings stay as they were.
C13_InputUntouched == [][garmin_data' = garmin_data]_vars

\* a call on a dataset with an activity, recovery records and markers has
\* returned, recovery records read into the first week
C13_Witness ==
    /\ pc = "done"
    /\ Len(garmin_data.recent_activities) = 1
    /\ Len(garmin_data.recovery_indicators) >= 2
    /\ garmin_data.physiological_markers.vo2_max.t = "num"
    /\ result.weekly_trends[1].recovery.avg_resting_hr # NoneVal
    /\ result.current_metrics.vo2_max = garmin_data.physiological_markers.vo2_max

(* ------------------------------------------------------------------ *)
(* C14                                                                 *)
(* ------------------------------------------------------------------ *)

\* no activities, no recovery records, empty marker mappings
EmptyDataset == garmin_data = GarminData(<<>>, <<>>, NoMarkers)

\* a week of nothing: zero sums, empty breakdowns, None everywhere else
EmptyWeek(w) ==
    /\ w.volume = [total_activities |-> 0, total_distance_km |-> RZero,
                   total_duration_hours |-> RZero, total_elevation_gain_m |-> RZero]
    /\ DOMAIN w.by_activity_type.counts = {}
    /\ DOMAIN w.by_activity_type.distance_km = {}
    /\ DOMAIN w.by_activity_type.duration_hours = {}
    /\ w.intensity = [avg_heart_rate |-> NoneVal, max_heart_rate |-> NoneVal,
                      total_training_load |-> NoneVal]
    /\ w.key_sessions = [longest_distance_km |-> NoneVal, longest_duration_hours |-> NoneVal,
                         highest_intensity_type |-> TypeNull]
    /\ w.recovery = [avg_resting_hr |-> NoneVal, avg_sleep_hours |-> NoneVal]

\* C14: on an empty dataset the call raises nothing and returns all four
\* parts: no recent activities, as many weeks as the window has, every one
\* of them with zero sums, empty breakdowns and None for every intensity,
\* key-session and recovery field.
C14_EmptyDataset ==
    EmptyDataset =>
        /\ pc # "raised"
        /\ pc = "done" =>
              /\ {"recent_activities", "weekly_trends", "current_metrics", "metadata"}
                    \subseteq DOMAIN result
              /\ result.recent_activities = <<>>
              /\ NumWeeks = WeekSteps
              /\ \A k \in DOMAIN result.weekly_trends : EmptyWeek(result.weekly_trends[k])

\* the empty dataset gave two empty weeks
C14_Witness ==
    /\ pc = "done"
    /\ EmptyDataset
    /\ NumWeeks = 2
    /\ EmptyWeek(result.weekly_trends[2])

(* ------------------------------------------------------------------ *)
(* C15                                                                 *)
(* ------------------------------------------------------------------ *)

\* the sum of the training loads of the k-th week
LoadSum(k) == SumOfField(ActivitiesOfWeek(k), "activity_training_load")

ShownLoad(k) == result.weekly_trends[k].intensity.total_training_load

\* C15 as stated: total_training_load is the sum of the loads of the week if
\* that sum is strictly positive, None otherwise.
C15_LoadAsStated ==
    pc = "done" =>
        \A k \in DOMAIN result.weekly_trends :
            ShownLoad(k) = (IF RPos(LoadSum(k)) THEN Num(LoadSum(k)) ELSE NoneVal)

\* C15 amended: total_training_load is the sum of the loads of the week
\* rounded to one decimal if that sum is strictly positive (0.0 for a positive
\* sum below 0.05), and None otherwise: None, never 0, for a week whose
\* activities all report 0 and for a week without activities.
C15_Load ==
    pc = "done" =>
        \A k \in DOMAIN result.weekly_trends :
            IF RPos(LoadSum(k))
            THEN ShownLoad(k).t = "num" /\ IsRounded(ShownLoad(k).v, LoadSum(k), 1)
            ELSE ShownLoad(k) = NoneVal

\* a week of loads 85 and 120 shows 205, and the week after it, without
\* activities, shows None
C15_Witness ==
    /\ pc = "done"
    /\ Len(ActivitiesOfWeek(1)) = 2
    /\ ShownLoad(1) = Num(RInt(205))
    /\ ShownLoad(2) = NoneVal

(* ------------------------------------------------------------------ *)
(* C16                                                                 *)
(* ------------------------------------------------------------------ *)

AverageHrs(k) == [i \in DOMAIN ActivitiesOfWeek(k) |-> ActivitiesOfWeek(k)[i].summary.average_hr]

MaxHrs(k) == [i \in DOMAIN ActivitiesOfWeek(k) |-> ActivitiesOfWeek(k)[i].summary.max_hr]

\* a number above 0
HasPositive(value) == value.t = "num" /\ RPos(value.v)

\* a number whose integer part is above 0
HasPositiveInt(value) == value.t = "num" /\ RTrunc(value.v) > 0

ShownAvgHr(k) == result.weekly_trends[k].intensity.avg_heart_rate

ShownMaxHr(k) == result.weekly_trends[k].intensity.max_heart_rate

\* the largest of a non-empty sequence of numbers
Largest(xs) == CHOOSE x \in {xs[i] : i \in DOMAIN xs} :
                   \A i \in DOMAIN xs : ~RLess(x, xs[i])

\* C16 as stated: avg_heart_rate is the mean of the strictly positive average
\* heart rates of the week and max_heart_rate the maximum of the strictly
\* positive maximum heart rates; each is None when there is no such value.
C16_HeartRatesAsStated ==
    pc = "done" =>
        \A k \in DOMAIN result.weekly_trends :
            LET avgs == ValuesOf(SelectSeq(AverageHrs(k), HasPositive))
                maxs == ValuesOf(SelectSeq(MaxHrs(k), HasPositive))
            IN  /\ ShownAvgHr(k) = (IF avgs = <<>> THEN NoneVal ELSE Num(Mean(avgs)))
                /\ ShownMaxHr(k) = (IF maxs = <<>> THEN NoneVal ELSE Num(Largest(maxs)))

\* C16 amended: avg_heart_rate is the mean, rounded to one decimal, of the
\* strictly positive average heart rates of the week (140 and 150 give 145);
\* max_heart_rate is the maximum of the maximum heart rates cut to their
\* integer part, over those whose integer part is strictly positive; each is
\* None when no activity of the week has such a value, and a missing, None,
\* zero or non-numeric heart rate is not in the mean's denominator.
C16_HeartRates ==
    pc = "done" =>
        \A k \in DOMAIN result.weekly_trends :
            LET avgs == ValuesOf(SelectSeq(AverageHrs(k), HasPositive))
                maxs == ValuesOf(SelectSeq(MaxHrs(k), HasPositiveInt))
            IN  /\ IF avgs = <<>> THEN ShownAvgHr(k) = NoneVal
                   ELSE /\ ShownAvgHr(k).t = "num"
                        /\ IsRounded(ShownAvgHr(k).v, Mean(avgs), 1)
                /\ ShownMaxHr(k) =
                      (IF maxs = <<>> THEN NoneVal ELSE Num(RInt(RTrunc(Largest(maxs)))))

\* 140 and 150 give 145 and a maximum of 172, the activity between them
\* having 0 for both
C16_Witness ==
    /\ pc = "done"
    /\ Len(ActivitiesOfWeek(1)) = 3
    /\ AverageHrs(1)[2] = Num(RZero)
    /\ ShownAvgHr(1) = Num(RInt(145))
    /\ ShownMaxHr(1) = Num(RInt(172))
    /\ ShownAvgHr(2) = NoneVal

(* ------------------------------------------------------------------ *)
(* C17                                                                 *)
(* ------------------------------------------------------------------ *)

LoadOf(activity) == Contribution(activity, "activity_training_load")

\* the first activity of the week no other activity of the week has a higher
\* load than, 0 if the week has no activity with a load above 0
MostIntense(k) ==
    LET acts == ActivitiesOfWeek(k)
        tops == {i \in DOMAIN acts :
                    /\ RPos(LoadOf(acts[i]))
                    /\ \A j \in DOMAIN acts : ~RLess(LoadOf(acts[i]), LoadOf(acts[j]))}
    IN  IF tops = {} THEN 0 ELSE CHOOSE i \in tops : \A j \in tops : i <= j

ShownType(k) == result.weekly_trends[k].key_sessions.highest_intensity_type

\* C17: highest_intensity_type is the activity type ("unknown" for a record
\* without the tag) of the activity with the highest training load of the
\* week, of the first such activity in input order when several tie, and
\* None when the week has no activity with a strictly positive load.
C17_HighestIntensity ==
    pc = "done" =>
        \A k \in DOMAIN result.weekly_trends :
            ShownType(k) = (IF MostIntense(k) = 0 THEN TypeNull
                            ELSE ActivityTypeOf(ActivitiesOfWeek(k)[MostIntense(k)]))

\* loads 85, 120 and 120: the first of the two that tie gives the type, and
\* the week after it has no type
C17_Witness ==
    /\ pc = "done"
    /\ Len(ActivitiesOfWeek(1)) = 3
    /\ LoadOf(ActivitiesOfWeek(1)[1]) = RInt(85)
    /\ LoadOf(ActivitiesOfWeek(1)[2]) = RInt(120)
    /\ LoadOf(ActivitiesOfWeek(1)[3]) = RInt(120)
    /\ ActivityTypeOf(ActivitiesOfWeek(1)[2]) # ActivityTypeOf(ActivitiesOfWeek(1)[3])
    /\ ShownType(1) = ActivityTypeOf(ActivitiesOfWeek(1)[2])
    /\ ShownType(2) = TypeNull

(* ------------------------------------------------------------------ *)
(* C18                                                                 *)
(* ------------------------------------------------------------------ *)

AfterRecentCutoff(a) == Dated(a) /\ _parse_activity_date(a) > recent_cutoff

\* C18: recent_activities of the result is the input list cut down to the
\* activities with d > recent_cutoff: the records as they are in the input,
\* in the order of the input, none twice and none added.
C18_RecentAsGiven ==
    pc = "done" =>
        result.recent_activities = SelectSeq(input_activities, AfterRecentCutoff)

\* of a recent activity, one in another format and another recent one, the
\* two recent ones come out in that order
C18_Witness ==
    /\ pc = "done"
    /\ Len(input_activities) = 3
    /\ ~Dated(input_activities[2])
    /\ input_activities[1] # input_activities[3]
    /\ result.recent_activities = <<input_activities[1], input_activities[3]>>

(* ------------------------------------------------------------------ *)
(* C19                                                                 *)
(* ------------------------------------------------------------------ *)

\* a timestamp with a trailing "Z", one without offset, a bare date
ThreeEncodings == {"datetimeZ", "datetime", "date"}

InThreeEncodings(a) == a.start_time.form \in ThreeEncodings /\ ValidYMD(a.start_time.ymd)

\* the week the activity was grouped into, NoDate if none
GroupedInto(a) ==
    IF \E w \in DOMAIN weeks : \E i \in DOMAIN weeks[w] : weeks[w][i] = a
    THEN CHOOSE w \in DOMAIN weeks : \E i \in DOMAIN weeks[w] : weeks[w][i] = a
    ELSE NoDate

\* C19: a timestamp with a trailing "Z", a timestamp without offset and a
\* bare date, written for the same day, parse to that day, and the activities
\* that carry them are in the same bucket and in the same week.
C19_SameDateAnyEncoding ==
    \A i, j \in DOMAIN input_activities :
        LET a == input_activities[i]
            b == input_activities[j]
        IN  (InThreeEncodings(a) /\ InThreeEncodings(b) /\ a.start_time.ymd = b.start_time.ymd) =>
              /\ _parse_activity_date(a) = ToOrdinal(a.start_time.ymd)
              /\ _parse_activity_date(b) = _parse_activity_date(a)
              /\ pc \in {"group", "walk", "done"} =>
                    /\ InRecent(a) <=> InRecent(b)
                    /\ InHistorical(a) <=> InHistorical(b)
              /\ pc \in {"walk", "done"} =>
                    /\ GroupedInto(a) = GroupedInto(b)
                    /\ InHistorical(a) => GroupedInto(a) = MondayOnOrBefore(ToOrdinal(a.start_time.ymd))

\* one day of the first week in the three encodings: three activities in
\* that week
C19_Witness ==
    /\ pc = "done"
    /\ Len(input_activities) = 3
    /\ {input_activities[i].start_time.form : i \in 1..3} = ThreeEncodings
    /\ \A i \in 1..3 : input_activities[i].start_time.ymd = IsoFormat(FixedDate - 7)
    /\ result.weekly_trends[1].volume.total_activities = 3

(* ------------------------------------------------------------------ *)
(* C20                                                                 *)
(* ------------------------------------------------------------------ *)

\* the value of a field of a block, None when the field or the block is absent
SourceOrNone(block, field) ==
    IF block.t = "missing" \/ block[field].t = "missing" THEN NoneVal ELSE block[field]

\* the acute_training_load block, absent when training_status is
AcuteSource ==
    IF garmin_data.training_status.t = "missing"
    THEN [t |-> "missing", acute_load |-> Missing, chronic_load |-> Missing, acwr |-> Missing]
    ELSE garmin_data.training_status.acute_training_load

\* C20: the current metrics have every one of their fields; each is the
\* value of its source field when that is present, and None, not 0, when the
\* source field or the block it is in is missing.
C20_CurrentMetrics ==
    pc = "done" =>
        LET shown == result.current_metrics
        IN  /\ DOMAIN shown = {"resting_heart_rate", "vo2_max", "hrv", "training_load",
                               "current_stress", "current_rhr"}
            /\ DOMAIN shown.training_load = {"acute", "chronic", "acwr"}
            /\ shown.resting_heart_rate
                  = SourceOrNone(garmin_data.physiological_markers, "resting_heart_rate")
            /\ shown.vo2_max = SourceOrNone(garmin_data.physiological_markers, "vo2_max")
            /\ shown.hrv = SourceOrNone(garmin_data.physiological_markers, "hrv")
            /\ shown.training_load.acute = SourceOrNone(AcuteSource, "acute_load")
            /\ shown.training_load.chronic = SourceOrNone(AcuteSource, "chronic_load")
            /\ shown.training_load.acwr = SourceOrNone(AcuteSource, "acwr")
            /\ shown.current_stress
                  = SourceOrNone(garmin_data.daily_stats, "average_stress_level")
            /\ shown.current_rhr = SourceOrNone(garmin_data.daily_stats, "resting_heart_rate")

\* no physiological_markers, an acute load without its ratio, a stress level
\* of 0: None, 450 and None, and 0
C20_Witness ==
    /\ pc = "done"
    /\ garmin_data.physiological_markers.t = "missing"
    /\ result.current_metrics.vo2_max = NoneVal
    /\ result.current_metrics.training_load.acute = Num(RInt(450))
    /\ garmin_data.training_status.acute_training_load.acwr = Missing
    /\ result.current_metrics.training_load.acwr = NoneVal
    /\ result.current_metrics.current_stress = Num(RZero)

(* ------------------------------------------------------------------ *)
(* C21                                                                 *)
(* ------------------------------------------------------------------ *)

\* the keys of the result, of its metadata, of a weekly entry and its groups
HasShape(entry) ==
    /\ DOMAIN entry = {"week_start", "week_end", "week_number", "volume",
                       "by_activity_type", "intensity", "key_sessions", "recovery"}
    /\ DOMAIN entry.volume = {"total_activities", "total_distance_km",
                              "total_duration_hours", "total_elevation_gain_m"}
    /\ DOMAIN entry.by_activity_type = {"counts", "distance_km", "duration_hours"}
    /\ DOMAIN entry.intensity = {"avg_heart_rate", "max_heart_rate", "total_training_load"}
    /\ DOMAIN entry.key_sessions = {"longest_distance_km", "longest_duration_hours",
                                    "highest_intensity_type"}
    /\ DOMAIN entry.recovery = {"avg_resting_hr", "avg_sleep_hours"}

ResultHasShape ==
    /\ DOMAIN result = {"set", "recent_activities", "weekly_trends", "current_metrics",
                        "metadata"}
    /\ DOMAIN result.metadata = {"preparation_date", "recent_window_days",
                                 "trends_window_days"}
    /\ result.metadata.preparation_date = IsoFormat(analysis_date)
    /\ result.metadata.recent_window_days = recent_window_days
    /\ result.metadata.trends_window_days = trends_window_days
    /\ Len(result.weekly_trends) = Len(aggregates)
    /\ \A k \in DOMAIN result.weekly_trends : HasShape(result.weekly_trends[k])

\* the values of a mapping by type, each one rounded
RoundedByType(shown, attribute, ndigits) ==
    /\ DOMAIN shown = DOMAIN attribute
    /\ \A type \in DOMAIN shown : IsRounded(shown[type], attribute[type], ndigits)

\* an optional number: rounded, and None when it is None or 0
RoundedOrNone(shown, attribute, ndigits) ==
    IF attribute = NoneVal \/ attribute.v = RZero THEN shown = NoneVal
    ELSE shown.t = "num" /\ IsRounded(shown.v, attribute.v, ndigits)

\* C21 as stated: the result has its four parts and its metadata, and every
\* entry of weekly_trends has its keys and groups, each holding the attribute
\* of the WeeklyAggregate it was projected from.
C21_ShapeAsStated ==
    pc = "done" =>
        /\ ResultHasShape
        /\ \A k \in DOMAIN result.weekly_trends :
              LET entry == result.weekly_trends[k]
                  agg   == aggregates[k]
              IN  /\ entry.week_start = agg.week_start
                  /\ entry.week_end = agg.week_end
                  /\ entry.week_number = agg.week_number
                  /\ entry.volume =
                        [total_activities       |-> agg.total_activities,
                         total_distance_km      |-> agg.total_distance_km,
                         total_duration_hours   |-> agg.total_duration_hours,
                         total_elevation_gain_m |-> agg.total_elevation_gain_m]
                  /\ entry.by_activity_type =
                        [counts         |-> agg.activities_by_type,
                         distance_km    |-> agg.distance_by_type,
                         duration_hours |-> agg.duration_by_type]
                  /\ entry.intensity =
                        [avg_heart_rate      |-> agg.avg_heart_rate,
                         max_heart_rate      |-> agg.max_heart_rate,
                         total_training_load |-> agg.total_training_load]
                  /\ entry.key_sessions =
                        [longest_distance_km    |-> agg.longest_activity_distance_km,
                         longest_duration_hours |-> agg.longest_activity_duration_hours,
                         highest_intensity_type |-> agg.highest_intensity_activity]
                  /\ entry.recovery =
                        [avg_resting_hr  |-> agg.avg_resting_hr,
                         avg_sleep_hours |-> agg.avg_sleep_hours]

\* C21 amended: the result has its four parts and its metadata, and every
\* entry of weekly_trends has its keys and groups; week_start, week_end,
\* week_number, total_activities, the counts by type, max_heart_rate and the
\* most intense type are the attributes of the WeeklyAggregate, the other
\* numbers are its attributes rounded (distances, durations, elevation and
\* sleep to two decimals, heart rates and load to one), and an optional
\* number that is None or 0 is shown as None.
C21_Shape ==
    pc = "done" =>
        /\ ResultHasShape
        /\ \A k \in DOMAIN result.weekly_trends :
              LET entry == result.weekly_trends[k]
                  agg   == aggregates[k]
              IN  /\ entry.week_start = agg.week_start
                  /\ entry.week_end = agg.week_end
                  /\ entry.week_number = agg.week_number
                  /\ entry.volume.total_activities = agg.total_activities
                  /\ IsRounded(entry.volume.total_distance_km, agg.total_distance_km, 2)
                  /\ IsRounded(entry.volume.total_duration_hours, agg.total_duration_hours, 2)
                  /\ IsRounded(entry.volume.total_elevation_gain_m,
                               agg.total_elevation_gain_m, 2)
                  /\ entry.by_activity_type.counts = agg.activities_by_type
                  /\ RoundedByType(entry.by_activity_type.distance_km, agg.distance_by_type, 2)
                  /\ RoundedByType(entry.by_activity_type.duration_hours,
                                   agg.duration_by_type, 2)
                  /\ RoundedOrNone(entry.intensity.avg_heart_rate, agg.avg_heart_rate, 1)
                  /\ entry.intensity.max_heart_rate = agg.max_heart_rate
                  /\ RoundedOrNone(entry.intensity.total_training_load,
                                   agg.total_training_load, 1)
                  /\ RoundedOrNone(entry.key_sessions.longest_distance_km,
                                   agg.longest_activity_distance_km, 2)
                  /\ RoundedOrNone(entry.key_sessions.longest_duration_hours,
                                   agg.longest_activity_duration_hours, 2)
                  /\ entry.key_sessions.highest_intensity_type = agg.highest_intensity_activity
                  /\ RoundedOrNone(entry.recovery.avg_resting_hr, agg.avg_resting_hr, 1)
                  /\ RoundedOrNone(entry.recovery.avg_sleep_hours, agg.avg_sleep_hours, 2)

\* the aggregate of a week holds 1.234 km and its entry shows 1.23
C21_Witness ==
    /\ pc = "done"
    /\ \E k \in DOMAIN result.weekly_trends :
          /\ aggregates[k].total_distance_km = Rat(1234, 1000)
          /\ result.weekly_trends[k].volume.total_distance_km = Rat(123, 100)
          /\ \E type \in DOMAIN result.weekly_trends[k].by_activity_type.distance_km :
                result.weekly_trends[k].by_activity_type.distance_km[type] = Rat(123, 100)

(* ------------------------------------------------------------------ *)
(* C22                                                                 *)
(* ------------------------------------------------------------------ *)

\* one marker value or None, and no mapping
SingleValue(x) == DOMAIN x = {"t", "v"} /\ x.t \in {"num", "null", "str"}

\* C22 as stated: every key of current_metrics maps to a single marker value
\* or None, none to a mapping of several markers.
C22_FlatAsStated ==
    pc = "done" =>
        \A key \in DOMAIN result.current_metrics : SingleValue(result.current_metrics[key])

\* C22 amended: resting_heart_rate, vo2_max, hrv, current_stress and
\* current_rhr map to the value of their source field as it is (a single
\* value or None unless the source value is itself a mapping, which is
\* passed on), and training_load maps to a mapping of acute, chronic and
\* acwr, each of them the value of its source field or None.
C22_OneNestedGroup ==
    pc = "done" =>
        LET shown  == result.current_metrics
            direct == {"resting_heart_rate", "vo2_max", "hrv", "current_stress", "current_rhr"}
        IN  /\ DOMAIN shown = direct \cup {"training_load"}
            /\ DOMAIN shown.training_load = {"acute", "chronic", "acwr"}
            /\ \A key \in DOMAIN shown.training_load : SingleValue(shown.training_load[key])
            /\ \A key \in direct \ {"hrv"} : SingleValue(shown[key])
            /\ shown.hrv = SourceOrNone(garmin_data.physiological_markers, "hrv")
            /\ SingleValue(shown.hrv) <=> garmin_data.physiological_markers.hrv # HrvMapping

\* hrv is a mapping in the dataset and in the result, and the acute load
\* 450 is one level down
C22_Witness ==
    /\ pc = "done"
    /\ garmin_data.physiological_markers.hrv = HrvMapping
    /\ result.current_metrics.hrv = HrvMapping
    /\ result.current_metrics.training_load.acute = Num(RInt(450))
    /\ result.current_metrics.current_rhr = Num(RInt(52))

(* ------------------------------------------------------------------ *)
(* C23                                                                 *)
(* ------------------------------------------------------------------ *)

\* the historical activities of a call dated within the week of week_start
ActivitySlice(call, week_start) ==
    LET rc == DaysBefore(call.analysis_date, call.recent_window_days)
        tc == DaysBefore(call.analysis_date, call.trends_window_days)
        InIt(a) == LET d == _parse_activity_date(a)
                   IN  /\ d # NoDate /\ d <= rc /\ d > tc
                       /\ week_start <= d /\ d <= week_start + 6
    IN  SelectSeq(call.garmin_data.recent_activities, InIt)

\* the recovery records of a call dated within the week of week_start
RecoverySlice(call, week_start) ==
    LET InIt(r) == LET d == FromIsoFormat(r.date.form, r.date.ymd)
                   IN  d # NoDate /\ week_start <= d /\ d <= week_start + 6
    IN  SelectSeq(call.garmin_data.recovery_indicators, InIt)

SameWindows(c1, c2) ==
    /\ c1.analysis_date = c2.analysis_date
    /\ c1.recent_window_days = c2.recent_window_days
    /\ c1.trends_window_days = c2.trends_window_days

\* C23: two calls with the same date and windows whose datasets have the
\* same historical activities, in the same order, and the same recovery
\* records within a week emit the same aggregate for that week, whatever the
\* datasets hold for other dates.
C23_WeekFromItsSlice ==
    \A i, j \in DOMAIN EndedCalls :
        LET c1 == EndedCalls[i]
            c2 == EndedCalls[j]
        IN  (c1.result.set /\ c2.result.set /\ SameWindows(c1, c2)) =>
              \A k \in (DOMAIN c1.result.weekly_trends) \cap (DOMAIN c2.result.weekly_trends) :
                  LET week_start == ToOrdinal(c1.result.weekly_trends[k].week_start)
                  IN  (/\ ActivitySlice(c1, week_start) = ActivitySlice(c2, week_start)
                       /\ RecoverySlice(c1, week_start) = RecoverySlice(c2, week_start))
                      => c1.result.weekly_trends[k] = c2.result.weekly_trends[k]

\* two calls whose datasets agree in the first week, an activity and a
\* recovery record, and differ in the second, gave the same first week and
\* another second week
C23_Witness ==
    /\ pc = "done"
    /\ Len(returned) = 1
    /\ returned[1].result.set
    /\ Len(ActivitySlice(ThisCall, Week1)) = 1
    /\ Len(RecoverySlice(ThisCall, Week1)) = 1
    /\ ActivitySlice(returned[1], Week1) = ActivitySlice(ThisCall, Week1)
    /\ RecoverySlice(returned[1], Week1) = RecoverySlice(ThisCall, Week1)
    /\ returned[1].result.weekly_trends[1] = result.weekly_trends[1]
    /\ returned[1].result.weekly_trends[2].volume # result.weekly_trends[2].volume
    /\ returned[1].result.weekly_trends[2].recovery # result.weekly_trends[2].recovery

(* ------------------------------------------------------------------ *)
(* C24                                                                 *)
(* ------------------------------------------------------------------ *)

\* C24: the returned result shares no mutable object with the input
\* dataset: once the call has returned, a modification of the input dataset
\* leaves the returned result as it was.
C24_NothingShared ==
    [][(pc = "done" /\ garmin_data' # garmin_data) => result' = result]_vars

(* ------------------------------------------------------------------ *)
(* C25                                                                 *)
(* ------------------------------------------------------------------ *)

\* the distances in km and the durations in hours of the activities of the
\* k-th emitted week
DistancesKm(k) ==
    [i \in DOMAIN ActivitiesOfWeek(k) |->
        RDivInt(Contribution(ActivitiesOfWeek(k)[i], "distance"), 1000)]

DurationsHours(k) ==
    [i \in DOMAIN ActivitiesOfWeek(k) |->
        RDivInt(Contribution(ActivitiesOfWeek(k)[i], "duration"), 3600)]

SomePositive(xs) == \E i \in DOMAIN xs : RPos(xs[i])

ShownLongestDistance(k) == result.weekly_trends[k].key_sessions.longest_distance_km

ShownLongestDuration(k) == result.weekly_trends[k].key_sessions.longest_duration_hours

\* C25 as stated: longest_distance_km (longest_duration_hours) is the largest
\* distance (duration) of a single activity of the week when some activity
\* has a strictly positive one, and None otherwise, never 0.
C25_LongestAsStated ==
    pc = "done" =>
        \A k \in DOMAIN result.weekly_trends :
            /\ ShownLongestDistance(k) =
                  (IF SomePositive(DistancesKm(k)) THEN Num(Largest(DistancesKm(k))) ELSE NoneVal)
            /\ ShownLongestDuration(k) =
                  (IF SomePositive(DurationsHours(k)) THEN Num(Largest(DurationsHours(k)))
                   ELSE NoneVal)

\* C25 amended: longest_distance_km (longest_duration_hours) is the largest
\* distance in km (duration in hours) of a single activity of the week,
\* rounded to two decimals, when some activity has a strictly positive one
\* (0.0 when the largest is below 0.005), and None otherwise: None, never 0,
\* for a week without activities and for one whose activities all have 0 or
\* nothing.
C25_Longest ==
    pc = "done" =>
        \A k \in DOMAIN result.weekly_trends :
            /\ IF SomePositive(DistancesKm(k))
               THEN /\ ShownLongestDistance(k).t = "num"
                    /\ IsRounded(ShownLongestDistance(k).v, Largest(DistancesKm(k)), 2)
               ELSE ShownLongestDistance(k) = NoneVal
            /\ IF SomePositive(DurationsHours(k))
               THEN /\ ShownLongestDuration(k).t = "num"
                    /\ IsRounded(ShownLongestDuration(k).v, Largest(DurationsHours(k)), 2)
               ELSE ShownLongestDuration(k) = NoneVal

\* a week of 10 km in 1 h and 1.234 km in 1000 s shows 10 and 1
C25_Witness ==
    /\ pc = "done"
    /\ \E k \in DOMAIN result.weekly_trends :
          /\ Len(ActivitiesOfWeek(k)) = 2
          /\ \E i \in 1..2 : ActivitiesOfWeek(k)[i].summary = Short
          /\ ShownLongestDistance(k) = Num(RInt(10))
          /\ ShownLongestDuration(k) = Num(RInt(1))

\* a week whose one activity covers 4 m in 10 s shows 0.0 twice
C25_TinyShowsZero ==
    /\ pc = "done"
    /\ \E k \in DOMAIN result.weekly_trends :
          /\ Len(ActivitiesOfWeek(k)) = 1
          /\ ActivitiesOfWeek(k)[1].summary = Tiny
          /\ ShownLongestDistance(k) = Num(RZero)
          /\ ShownLongestDuration(k) = Num(RZero)

(* ------------------------------------------------------------------ *)
(* C26                                                                 *)
(* ------------------------------------------------------------------ *)

\* two days of the same Monday-to-Sunday week
SameWeek(d, e) ==
    \E m \in (d - 6)..d : Weekday(m) = 0 /\ m <= e /\ e <= m + 6

\* C26: the week start the grouping computes for the date d of an activity
\* is a Monday with week start <= d <= week start + 6; a Monday is its own
\* week start, the week start of a week start is itself, and two activities
\* get the same week start exactly when their dates lie in the same
\* Monday-to-Sunday week. The walk starts on such a week start for
\* trends_cutoff.
C26_WeekStart ==
    pc \in {"walk", "done"} =>
        /\ \A i \in DOMAIN historical_activities :
              LET d == _parse_activity_date(historical_activities[i])
                  w == GroupedInto(historical_activities[i])
              IN  d # NoDate =>
                    /\ w # NoDate
                    /\ Weekday(w) = 0
                    /\ w <= d /\ d <= w + 6
                    /\ Weekday(d) = 0 => w = d
                    /\ _get_week_start(w) = w
                    /\ \A j \in DOMAIN historical_activities :
                          LET e == _parse_activity_date(historical_activities[j])
                          IN  e # NoDate =>
                                (GroupedInto(historical_activities[j]) = w <=> SameWeek(d, e))
        /\ (pc = "walk" /\ week_number = 1) =>
              /\ Weekday(current_week) = 0
              /\ current_week <= trends_cutoff /\ trends_cutoff <= current_week + 6

\* an activity of a Monday and one of a later day of that week are grouped
\* under that Monday
C26_Witness ==
    /\ pc = "done"
    /\ \E i, j \in DOMAIN historical_activities :
          LET d == _parse_activity_date(historical_activities[i])
              e == _parse_activity_date(historical_activities[j])
          IN  /\ d # NoDate /\ e # NoDate
              /\ Weekday(d) = 0 /\ e > d
              /\ GroupedInto(historical_activities[i]) = d
              /\ GroupedInto(historical_activities[j]) = d

\* two activities of neighbouring days, a Sunday and a Monday, are grouped
\* under different week starts
C26_WitnessApart ==
    /\ pc = "done"
    /\ \E i, j \in DOMAIN historical_activities :
          LET d == _parse_activity_date(historical_activities[i])
              e == _parse_activity_date(historical_activities[j])
          IN  /\ d # NoDate /\ e = d + 1
              /\ GroupedInto(historical_activities[i]) = d - 6
              /\ GroupedInto(historical_activities[j]) = e

(* ------------------------------------------------------------------ *)
(* C27                                                                 *)
(* ------------------------------------------------------------------ *)

RecordDate(r) == FromIsoFormat(r.date.form, r.date.ymd)

\* outside the historical zone: after recent_cutoff, or not after trends_cutoff
OutsideCutoffs(d) == d > recent_cutoff \/ d <= trends_cutoff

\* the emitted weeks whose range holds the day
WeeksHolding(d) ==
    {k \in DOMAIN result.weekly_trends :
        /\ ToOrdinal(result.weekly_trends[k].week_start) <= d
        /\ d <= ToOrdinal(result.weekly_trends[k].week_end)}

\* C27: the recovery averages of an emitted week are taken over every
\* recovery record dated within [week_start, week_end], those dated after
\* recent_cutoff or not after trends_cutoff included, while the activities of
\* such dates are not in the week's activity count; and a recovery record
\* lies in at most one emitted week.
C27_JoinIgnoresCutoffs ==
    pc = "done" =>
        /\ \A k \in DOMAIN result.weekly_trends :
              /\ ShownMean(result.weekly_trends[k].recovery.avg_resting_hr,
                           RestingHrValues(k), 1)
              /\ ShownMean(result.weekly_trends[k].recovery.avg_sleep_hours, SleepValues(k), 2)
              /\ result.weekly_trends[k].volume.total_activities =
                    Cardinality({i \in DOMAIN input_activities :
                        LET d == _parse_activity_date(input_activities[i])
                        IN  d # NoDate /\ k \in WeeksHolding(d) /\ ~OutsideCutoffs(d)})
        /\ \A i \in DOMAIN recovery_records :
              RecordDate(recovery_records[i]) # NoDate =>
                  Cardinality(WeeksHolding(RecordDate(recovery_records[i]))) <= 1

\* the record of Monday 2024-12-30, not after trends_cutoff, gives the first
\* week its 50 bpm and the record of the analysis date, after recent_cutoff,
\* gives the second week its 60 bpm, while the activity of that Monday is in
\* no week
C27_Witness ==
    /\ pc = "done"
    /\ Len(recovery_records) = 2
    /\ \A i \in 1..2 : OutsideCutoffs(RecordDate(recovery_records[i]))
    /\ result.weekly_trends[1].recovery.avg_resting_hr = Num(RInt(50))
    /\ result.weekly_trends[2].recovery.avg_resting_hr = Num(RInt(60))
    /\ Len(input_activities) = 1
    /\ _parse_activity_date(input_activities[1]) = Week1
    /\ result.weekly_trends[1].volume.total_activities = 0

(* ------------------------------------------------------------------ *)
(* C28                                                                 *)
(* ------------------------------------------------------------------ *)

\* the type an activity is counted under
TagOf(a) == IF a.activity_type.t = "missing" THEN TypeStr("unknown") ELSE a.activity_type

TypesOfWeek(k) == {TagOf(ActivitiesOfWeek(k)[i]) : i \in DOMAIN ActivitiesOfWeek(k)}

\* the activities of the k-th emitted week that are counted under the type
OfType(k, type) ==
    LET Tagged(a) == TagOf(a) = type
    IN  SelectSeq(ActivitiesOfWeek(k), Tagged)

RECURSIVE SumCounts(_)
SumCounts(dict) ==
    IF DOMAIN dict = {} THEN 0
    ELSE LET key == CHOOSE key \in DOMAIN dict : TRUE
         IN  dict[key] + SumCounts([other \in DOMAIN dict \ {key} |-> dict[other]])

RECURSIVE SumValues(_)
SumValues(dict) ==
    IF DOMAIN dict = {} THEN RZero
    ELSE LET key == CHOOSE key \in DOMAIN dict : TRUE
         IN  RAdd(dict[key], SumValues([other \in DOMAIN dict \ {key} |-> dict[other]]))

\* x and y differ by at most n half units of the second decimal
WithinHalfCents(x, y, n) == 200 * Abs(x.n * y.d - y.n * x.d) <= n * x.d * y.d

\* C28 as stated: in every emitted week counts, distance_km and
\* duration_hours have the same keys, the types of the activities of the week
\* ("unknown" for a record without a type tag); the counts sum to
\* total_activities, the distances to total_distance_km and the durations to
\* total_duration_hours; a week without activities has three empty mappings.
C28_BreakdownAsStated ==
    pc = "done" =>
        \A k \in DOMAIN result.weekly_trends :
            LET by_type == result.weekly_trends[k].by_activity_type
                volume  == result.weekly_trends[k].volume
            IN  /\ DOMAIN by_type.counts = TypesOfWeek(k)
                /\ DOMAIN by_type.distance_km = TypesOfWeek(k)
                /\ DOMAIN by_type.duration_hours = TypesOfWeek(k)
                /\ SumCounts(by_type.counts) = volume.total_activities
                /\ SumValues(by_type.distance_km) = volume.total_distance_km
                /\ SumValues(by_type.duration_hours) = volume.total_duration_hours

\* C28 amended: the three mappings have the same keys, the types of the
\* activities of the week; the count of a type is the number of its
\* activities, so the counts sum to total_activities; the distance and the
\* duration of a type are the sums over its activities, each rounded to two
\* decimals, so their sums are the rounded totals up to 0.005 per type and
\* 0.005 for the total; a week without activities has three empty mappings.
C28_Breakdown ==
    pc = "done" =>
        \A k \in DOMAIN result.weekly_trends :
            LET by_type == result.weekly_trends[k].by_activity_type
                volume  == result.weekly_trends[k].volume
                types   == TypesOfWeek(k)
            IN  /\ DOMAIN by_type.counts = types
                /\ DOMAIN by_type.distance_km = types
                /\ DOMAIN by_type.duration_hours = types
                /\ \A type \in types :
                      /\ by_type.counts[type] = Len(OfType(k, type))
                      /\ IsRounded(by_type.distance_km[type],
                                   RDivInt(SumOfField(OfType(k, type), "distance"), 1000), 2)
                      /\ IsRounded(by_type.duration_hours[type],
                                   RDivInt(SumOfField(OfType(k, type), "duration"), 3600), 2)
                /\ SumCounts(by_type.counts) = volume.total_activities
                /\ WithinHalfCents(SumValues(by_type.distance_km), volume.total_distance_km,
                                   Cardinality(types) + 1)
                /\ WithinHalfCents(SumValues(by_type.duration_hours),
                                   volume.total_duration_hours, Cardinality(types) + 1)
                /\ ActivitiesOfWeek(k) = <<>> => types = {}

\* a week of a 20 km cycling activity and a 1.234 km activity without a type
\* tag: the keys are cycling and "unknown", one activity each, 20 and 1.23 km
\* of 21.23 km
C28_Witness ==
    /\ pc = "done"
    /\ \E k \in DOMAIN result.weekly_trends :
          LET by_type == result.weekly_trends[k].by_activity_type
          IN  /\ DOMAIN by_type.counts = {TypeStr("cycling"), TypeStr("unknown")}
              /\ by_type.counts[TypeStr("unknown")] = 1
              /\ by_type.distance_km[TypeStr("cycling")] = RInt(20)
              /\ by_type.distance_km[TypeStr("unknown")] = Rat(123, 100)
              /\ result.weekly_trends[k].volume.total_distance_km = Rat(2123, 100)
    /\ \E k \in DOMAIN result.weekly_trends :
          /\ ActivitiesOfWeek(k) = <<>>
          /\ DOMAIN result.weekly_trends[k].by_activity_type.counts = {}

\* a week of 1.234 km without a type tag and 4 m of running: 1.23 and 0.0 km
\* by type, 1.24 km in total
C28_SumsApart ==
    /\ pc = "done"
    /\ \E k \in DOMAIN result.weekly_trends :
          LET by_type == result.weekly_trends[k].by_activity_type
          IN  /\ DOMAIN by_type.distance_km = {TypeStr("running"), TypeStr("unknown")}
              /\ by_type.distance_km[TypeStr("running")] = RZero
              /\ by_type.distance_km[TypeStr("unknown")] = Rat(123, 100)
              /\ result.weekly_trends[k].volume.total_distance_km = Rat(124, 100)

(* ------------------------------------------------------------------ *)
(* C29                                                                 *)
(* ------------------------------------------------------------------ *)

\* the seven optional numbers of an entry of weekly_trends
NullableNumbers(entry) ==
    {entry.intensity.avg_heart_rate, entry.intensity.max_heart_rate,
     entry.intensity.total_training_load, entry.key_sessions.longest_distance_km,
     entry.key_sessions.longest_duration_hours, entry.recovery.avg_resting_hr,
     entry.recovery.avg_sleep_hours}

\* C29: in every entry of weekly_trends each of avg_heart_rate,
\* max_heart_rate, total_training_load, longest_distance_km,
\* longest_duration_hours, avg_resting_hr and avg_sleep_hours is None or a
\* number other than 0.
C29_NullOrNonZero ==
    pc = "done" =>
        \A k \in DOMAIN result.weekly_trends :
            \A x \in NullableNumbers(result.weekly_trends[k]) :
                x = NoneVal \/ (x.t = "num" /\ x.v # RZero)

(* ------------------------------------------------------------------ *)
(* C30                                                                 *)
(* ------------------------------------------------------------------ *)

\* C30: for every analysis date and every pair of window lengths, negative
\* ones and a trends window not longer than the recent one included, the call
\* returns; each iteration of the week walk moves week_start on by 7 days;
\* and there is no iteration when the Monday on or before trends_cutoff is
\* not before recent_cutoff.
C30_WalkTerminates ==
    /\ (pc = "split") ~> (pc = "done")
    /\ [][(pc = "walk" /\ pc' = "walk") =>
            (current_week' = current_week + 7 /\ week_number' = week_number + 1)]_vars
    /\ [](pc = "done" =>
            /\ MondayOnOrBefore(trends_cutoff) >= recent_cutoff => NumWeeks = 0
            /\ \A k \in DOMAIN result.weekly_trends :
                  ToOrdinal(result.weekly_trends[k].week_start) =
                      MondayOnOrBefore(trends_cutoff) + 7 * (k - 1))

\* a call with a negative recent window and a trends window shorter still
\* has returned with the one week between its cutoffs
C30_Witness ==
    /\ pc = "done"
    /\ recent_window_days < 0
    /\ trends_window_days < recent_window_days
    /\ NumWeeks = 1

\* a call whose trends window is the shorter one has returned without a week
C30_WitnessNoWeek ==
    /\ pc = "done"
    /\ trends_window_days <= recent_window_days
    /\ trends_window_days > 0
    /\ NumWeeks = 0

====
